---------------------------- MODULE Spec2Model ----------------------------
(***************************************************************************)
(* State-machine model of the heading/title inference pipeline             *)
(* (ModularPDFExtractor and its components).                               *)
(*                                                                         *)
(* Representation choices                                                  *)
(*   - A text is a sequence of code points.  A code point is a string: an  *)
(*     ASCII character stands for itself, "U+xxxx" names a non-ASCII one.  *)
(*     Python's len(text) is Len(text).                                    *)
(*   - A dict is a record; a key that is absent from the dict is absent    *)
(*     from DOMAIN of the record.                                          *)
(*   - Font sizes and positions are integers (points); an average font     *)
(*     size is an exact rational [n, d] in lowest terms.                   *)
(*   - A score of the accuracy enhancer is an integer number of            *)
(*     thousandths.                                                        *)
(***************************************************************************)
EXTENDS Integers, Sequences, FiniteSets, TLC

VARIABLES
    pc,          \* position of the run
    doc,         \* the opened document: a sequence of pages, a page a sequence of lines
    opts,        \* constructor options of ModularPDFExtractor, and whether the
                 \* LayoutLMv3 enhancer can be imported and its model loaded
    predictions, \* what the LayoutLMv3 model predicts for the words of a page
    profile,     \* doc_profile
    title,       \* extracted title
    lines_info,  \* one page's line records, sorted by y_pos
    page_num,    \* the 0-based index of that page
    groups,      \* the line groups the reconstruction loop closed, in order
    fragments,   \* reconstructed text blocks (all_texts)
    candidates,  \* heading candidates
    filtered,    \* result of filter_candidates
    headings,    \* structured headings
    outline,     \* outline of the returned result
    accuracy_metrics, \* the metrics of the accuracy enhancer, <<>> for {}
    result,      \* what the operation returned
    cluster_labels,  \* the labels KMeans.fit_predict returned, <<>> when it was not called
    candidate_scores,  \* the quality score of every scored candidate, in thousandths
    dynamic_threshold,  \* the dynamic threshold, in ten-thousandths
    exception_in,  \* the stage in which an exception was raised during the run, or none
    input_paths, \* process_files: the paths it was given
    work_queue,  \* the work items of the executor that no worker has taken yet
    futures,     \* the state of the future of every input path
    workers,     \* the position of every worker thread and the item it holds
    output_dir,  \* the content of every file of the output directory
    enhancer,    \* the processor, model and initialized fields of the one
                 \* LayoutLMv3Enhancer of the extractor
    calls        \* how often process_single_file was called for every input path

vars == <<pc, doc, opts, predictions, profile, title, lines_info, page_num, groups, fragments,
          candidates, filtered, headings, outline, accuracy_metrics, result, cluster_labels,
          candidate_scores, dynamic_threshold, exception_in, input_paths, work_queue,
          futures, workers, output_dir, enhancer, calls>>

\* the variables of a batch, which a single extraction leaves alone
batch_vars == <<input_paths, work_queue, futures, workers, output_dir, enhancer, calls>>

-----------------------------------------------------------------------------
(* Generic helpers                                                         *)

Min(a, b) == IF a < b THEN a ELSE b
Max(a, b) == IF a > b THEN a ELSE b
Abs(a) == IF a < 0 THEN -a ELSE a

\* a string literal as a text
Chars(s) == [i \in 1..Len(s) |-> SubSeq(s, i, i)]

\* the set of elements of a sequence
Range(s) == {s[i] : i \in 1..Len(s)}

\* all sequences over S of length at most n
SeqsUpTo(S, n) == UNION {[1..k -> S] : k \in 0..n}

RECURSIVE GCD(_, _)
GCD(a, b) == IF b = 0 THEN a ELSE GCD(b, a % b)

\* the exact quotient a / b in lowest terms (b > 0, a >= 0)
Rat(a, b) == LET g == GCD(a, b) IN [n |-> a \div g, d |-> b \div g]
RatLT(x, y) == x.n * y.d < y.n * x.d
RatGT(x, y) == RatLT(y, x)
RatOfInt(a) == [n |-> a, d |-> 1]
RatAdd(x, y) == Rat(x.n * y.d + y.n * x.d, x.d * y.d)

\* the least element of a non-empty set of integers
SetMin(S) == CHOOSE x \in S : \A y \in S : x <= y
SetMax(S) == CHOOSE x \in S : \A y \in S : x >= y

\* the concatenation of a sequence of sequences
RECURSIVE Flatten(_)
Flatten(ss) == IF ss = <<>> THEN <<>> ELSE Head(ss) \o Flatten(Tail(ss))

-----------------------------------------------------------------------------
(* Code points and Python's str predicates on them                         *)

UpperSeq == Chars("ABCDEFGHIJKLMNOPQRSTUVWXYZ")
LowerSeq == Chars("abcdefghijklmnopqrstuvwxyz")
Uppers == Range(UpperSeq)
Lowers == Range(LowerSeq)
Digits == Range(Chars("0123456789"))
\* LF is the line feed
WhiteSpace == {" ", "TAB", "LF"}
\* U+00A9 is the copyright sign
Punct == Range(Chars(".:_-()/!?,")) \cup {"U+00A9"}
\* CJK ideographs U+7B2C U+7AE0 U+6982 U+8981 (all in U+4E00-U+9FAF)
Ideographs == {"U+7B2C", "U+7AE0", "U+6982", "U+8981"}
\* U+0301 combining acute accent; U+00E9 e with acute
Combining == {"U+0301"}
Accented == {"U+00E9"}
AllChars == Uppers \cup Lowers \cup Digits \cup WhiteSpace \cup Punct
            \cup Ideographs \cup Combining \cup Accented

\* str.isupper / str.islower / str.isalnum / str.isdigit of one code point
Cased == Uppers \cup Lowers \cup Accented
LowerCased == Lowers \cup Accented
Letters == Uppers \cup Lowers \cup Accented \cup Ideographs
AlNum == Letters \cup Digits
\* \w of a str pattern: alphanumerics and underscore
WordChars == AlNum \cup {"_"}

LowerOf == [c \in AllChars |->
              IF c \in Uppers
              THEN LowerSeq[CHOOSE i \in 1..26 : UpperSeq[i] = c]
              ELSE c]

\* str.lower()
Lower(t) == [i \in 1..Len(t) |-> LowerOf[t[i]]]

\* str.strip()
RECURSIVE LStrip(_)
LStrip(t) == IF t # <<>> /\ Head(t) \in WhiteSpace THEN LStrip(Tail(t)) ELSE t
RECURSIVE RStrip(_)
RStrip(t) == IF t # <<>> /\ t[Len(t)] \in WhiteSpace
             THEN RStrip(SubSeq(t, 1, Len(t) - 1)) ELSE t
Strip(t) == RStrip(LStrip(t))

\* str.split(): the maximal runs of non-whitespace, in order
Split(t) ==
    LET starts == {i \in 1..Len(t) :
                      t[i] \notin WhiteSpace /\ (i = 1 \/ t[i - 1] \in WhiteSpace)}
        ends == {i \in 1..Len(t) :
                    t[i] \notin WhiteSpace /\ (i = Len(t) \/ t[i + 1] \in WhiteSpace)}
        nth(S, k) == CHOOSE i \in S : Cardinality({j \in S : j < i}) = k - 1
    IN  [k \in 1..Cardinality(starts) |-> SubSeq(t, nth(starts, k), nth(ends, k))]

\* ' '.join(words)
RECURSIVE Join(_)
Join(ws) == IF ws = <<>> THEN <<>>
            ELSE IF Len(ws) = 1 THEN ws[1]
            ELSE ws[1] \o <<" ">> \o Join(Tail(ws))

\* sum(len(w) for w in ws)
RECURSIVE SumLen(_)
SumLen(ws) == IF ws = <<>> THEN 0 ELSE Len(Head(ws)) + SumLen(Tail(ws))

\* t[i..] starts with s
StartsAt(t, i, s) ==
    /\ i + Len(s) - 1 <= Len(t)
    /\ \A j \in 1..Len(s) : t[i + j - 1] = s[j]

\* str.startswith / str.endswith / the `in` operator on strings
StartsWith(t, s) == StartsAt(t, 1, s)
EndsWith(t, s) == Len(s) <= Len(t) /\ StartsAt(t, Len(t) - Len(s) + 1, s)
Contains(t, s) == \E i \in 1..(Len(t) - Len(s) + 1) : StartsAt(t, i, s)

\* str.count(s): the number of non-overlapping occurrences, found from the
\* left
RECURSIVE CountFrom(_, _, _)
CountFrom(t, s, i) ==
    LET hits == {j \in i..(Len(t) - Len(s) + 1) : StartsAt(t, j, s)}
    IN  IF hits = {} THEN 0
        ELSE 1 + CountFrom(t, s, (CHOOSE j \in hits : \A h \in hits : j <= h) + Len(s))
Count(t, s) == CountFrom(t, s, 1)

\* str.isupper(): some cased character, and no lower-case one
IsUpper(t) == /\ \E i \in 1..Len(t) : t[i] \in Cased
              /\ \A i \in 1..Len(t) : t[i] \notin LowerCased

\* str.istitle(): an upper-case character only after an uncased one, a
\* lower-case character only after a cased one, and some cased character
IsTitle(t) ==
    /\ \E i \in 1..Len(t) : t[i] \in Cased
    /\ \A i \in 1..Len(t) :
          LET prevCased == i > 1 /\ t[i - 1] \in Cased
          IN  /\ (t[i] \in Uppers => ~prevCased)
              /\ (t[i] \in LowerCased => prevCased)

-----------------------------------------------------------------------------
(* Regular expressions: a pattern is a sequence of atoms.                  *)
(*   [k |-> "cls", cls |-> S, min, inf, max]   min..max characters of S,   *)
(*                                             min or more when inf        *)
(*   [k |-> "lit", lit |-> s]                  the characters of s         *)
(*   [k |-> "wordb"]                           \b                          *)
(*   [k |-> "end"]                             $                           *)

One(S) == <<[k |-> "cls", cls |-> S, min |-> 1, inf |-> FALSE, max |-> 1]>>
Plus(S) == <<[k |-> "cls", cls |-> S, min |-> 1, inf |-> TRUE, max |-> 1]>>
Star(S) == <<[k |-> "cls", cls |-> S, min |-> 0, inf |-> TRUE, max |-> 0]>>
Opt(S) == <<[k |-> "cls", cls |-> S, min |-> 0, inf |-> FALSE, max |-> 1]>>
Times(S, n) == <<[k |-> "cls", cls |-> S, min |-> n, inf |-> FALSE, max |-> n]>>
AtLeast(S, n) == <<[k |-> "cls", cls |-> S, min |-> n, inf |-> TRUE, max |-> n]>>
Lit(s) == <<[k |-> "lit", lit |-> Chars(s)]>>
WordB == <<[k |-> "wordb"]>>
End == <<[k |-> "end"]>>

\* \b at position i (between t[i-1] and t[i])
AtWordBoundary(t, i) ==
    LET before == i > 1 /\ t[i - 1] \in WordChars
        after == i <= Len(t) /\ t[i] \in WordChars
    IN  before # after

\* atoms k.. of pat match t from position i on
RECURSIVE MatchFrom(_, _, _, _)
MatchFrom(pat, k, t, i) ==
    IF k > Len(pat) THEN TRUE
    ELSE IF pat[k].k = "wordb" THEN AtWordBoundary(t, i) /\ MatchFrom(pat, k + 1, t, i)
    ELSE IF pat[k].k = "end" THEN i = Len(t) + 1 /\ MatchFrom(pat, k + 1, t, i)
    ELSE IF pat[k].k = "lit"
         THEN StartsAt(t, i, pat[k].lit) /\ MatchFrom(pat, k + 1, t, i + Len(pat[k].lit))
    ELSE \E n \in pat[k].min .. (IF pat[k].inf THEN Len(t) - i + 1
                                  ELSE Min(pat[k].max, Len(t) - i + 1)) :
            /\ \A j \in i..(i + n - 1) : t[j] \in pat[k].cls
            /\ MatchFrom(pat, k + 1, t, i + n)

\* re.match(pat, t) and re.search(pat, t) as booleans
ReMatch(pat, t) == MatchFrom(pat, 1, t, 1)
ReSearch(pat, t) == \E i \in 1..(Len(t) + 1) : MatchFrom(pat, 1, t, i)

-----------------------------------------------------------------------------
(* Configuration (config/extractor_config.py, performance_monitor.py)      *)

\* ExtractorConfig.get_default_config(): the options the pipeline reads.
\* text_limits has no max_technical_heading.
get_default_config ==
    [extraction |->
        [max_workers |-> 6,
         clustering |-> [min_clusters |-> 2, max_clusters |-> 5, cluster_ratio |-> 3],
         font_thresholds |-> [min_heading_size |-> 11, large_font_threshold |-> 14,
                              title_font_threshold |-> 20, max_caps_length |-> 30],
         distance_thresholds |-> [font_size_tolerance |-> 2, grouping_distance |-> 30,
                                  large_font_tolerance |-> 3, large_font_distance |-> 40],
         text_limits |-> [min_text_length |-> 3, min_word_avg_length |-> 2,
                          max_form_heading |-> 50, max_academic_heading |-> 150,
                          max_simple_heading |-> 100, max_complex_heading |-> 150]],
     document_types |->
        [form |-> [indicators |-> {Chars("application"), Chars("form"),
                                   Chars("template"), Chars("document"),
                                   Chars("submission")},
                   min_indicators |-> 1,
                   title_keywords |-> {Chars("application"), Chars("document"),
                                       Chars("form"), Chars("template"),
                                       Chars("submission")},
                   avoid_keywords |-> {Chars("microsoft"), Chars("word"), Chars(".doc"),
                                       Chars("file"), Chars(".pdf")},
                   avoid_fields |-> {Chars("name:"), Chars("date:"),
                                     Chars("signature:"), Chars("employee")}],
         academic |-> [indicators |-> {Chars("syllabus"), Chars("curriculum"),
                                       Chars("course"), Chars("university"),
                                       Chars("college"), Chars("academic")},
                       min_indicators |-> 1,
                       max_dots |-> 3],
         technical |-> [indicators |-> {Chars("technical"), Chars("specification"),
                                        Chars("manual"), Chars("guide"),
                                        Chars("documentation")},
                        min_indicators |-> 1,
                        max_parentheses |-> 3],
         simple |-> [max_underscores |-> 2,
                     avoid_patterns |-> {Chars("copyright"), <<"U+00A9">>,
                                         Chars("all rights reserved")}]],
     filtering |-> [avoid_general |-> {Chars("copyright"), Chars("all rights reserved"),
                                       <<"U+00A9">>, Chars("confidential"),
                                       Chars("draft"), Chars("preliminary"),
                                       Chars("internal use")},
                    avoid_metadata |-> {Chars("filename"), Chars("author"),
                                        Chars("created"), Chars("modified"),
                                        Chars("subject"), Chars("keywords"),
                                        Chars("producer")},
                    min_unique_chars |-> 3,
                    \* max_space_ratio 0.7 as a fraction
                    max_space_ratio |-> [n |-> 7, d |-> 10]],
     layoutlmv3 |-> [enabled |-> TRUE]]

\* SizeOptimizer.optimize_config_for_performance
optimize_config_for_performance(base_config) ==
    [base_config EXCEPT
        !.extraction.clustering.max_clusters = 3,
        !.extraction.clustering.cluster_ratio = 5,
        !.extraction.max_workers = 6,
        !.extraction.text_limits.max_simple_heading = 80,
        !.extraction.text_limits.max_complex_heading = 120,
        !.extraction.text_limits.max_form_heading = 60]

\* the configuration ModularPDFExtractor.__init__ builds (no custom options)
ConfigOf(enable_performance_monitoring) ==
    IF enable_performance_monitoring
    THEN optimize_config_for_performance(get_default_config)
    ELSE get_default_config

\* the options whose default value is a dict
DictOptions ==
    {"extraction", "clustering", "font_thresholds", "distance_thresholds", "text_limits",
     "document_types", "form", "academic", "technical", "simple", "layoutlmv3"}

\* ExtractorConfig.merge_configs(default_config, custom_config); <<>> stands
\* for None and for {}
RECURSIVE merge_configs(_, _)
merge_configs(default_config, custom_config) ==
    IF custom_config = <<>> THEN default_config
    ELSE [key \in DOMAIN default_config \cup DOMAIN custom_config |->
            IF key \notin DOMAIN custom_config THEN default_config[key]
            ELSE IF key \in DOMAIN default_config /\ key \in DictOptions
            THEN merge_configs(default_config[key], custom_config[key])
            ELSE custom_config[key]]

\* ExtractorConfig.create_config(custom_config)
create_config(custom_config) == merge_configs(get_default_config, custom_config)

\* self.config of ModularPDFExtractor(config, ..., enable_performance_monitoring)
ConfigFor(custom_config, enable_performance_monitoring) ==
    IF enable_performance_monitoring
    THEN optimize_config_for_performance(create_config(custom_config))
    ELSE create_config(custom_config)

-----------------------------------------------------------------------------
(* The document.  A page is the sequence of its text lines in document     *)
(* order; a line has one span [text, size, bold, bbox] in one font.        *)

Span(text, size, bold, y) ==
    [text |-> text, size |-> size, bold |-> bold, bbox |-> <<72, y, 300, y + size>>]

\* the spans of a page whose stripped text is not empty, stripped
TextSpans(page) ==
    LET stripped == [i \in 1..Len(page) |-> [page[i] EXCEPT !.text = Strip(@)]]
    IN  SelectSeq(stripped, LAMBDA sp : sp.text # <<>>)

\* page.get_text(), split into its stripped non-empty lines
PlainLines(page) == [i \in 1..Len(TextSpans(page)) |-> TextSpans(page)[i].text]

-----------------------------------------------------------------------------
(* DocumentAnalyzer (analyzers/document_analyzer.py)                       *)

\* the page_text the scan of one page builds: each line and a line feed
PageText(page) ==
    Flatten([i \in 1..Len(PlainLines(page)) |-> PlainLines(page)[i] \o <<"LF">>])

\* total_text over all pages
TotalTextAllPages(d) == Flatten([p \in 1..Len(d) |-> PageText(d[p])])

\* total_text over the first three pages
TotalText(d) == Flatten([p \in 1..Min(3, Len(d)) |-> PageText(d[p])])

\* font_stats: characters per font key; the key is the span size
FontStats(d) ==
    LET spans == Flatten([p \in 1..Min(3, Len(d)) |-> TextSpans(d[p])])
        sizes == {spans[i].size : i \in 1..Len(spans)}
    IN  [sz \in sizes |->
            SumLen([i \in 1..Len(spans) |-> IF spans[i].size = sz
                                            THEN spans[i].text ELSE <<>>])]

\* how many of the indicators occur in the text
CountIndicators(indicators, text_lower) ==
    Cardinality({ind \in indicators : Contains(text_lower, ind)})

\* \b\d+\.\d+\s+[A-Z]
numbered_section_pattern ==
    WordB \o Plus(Digits) \o Lit(".") \o Plus(Digits) \o Plus(WhiteSpace) \o One(Uppers)

analyze_document(d, config) ==
    LET total_text == TotalText(d)
        text_lower == Lower(total_text)
        types == config.document_types
    IN  [text_sample |-> SubSeq(total_text, 1, Min(1000, Len(total_text))),
         font_stats |-> FontStats(d),
         structure |->
            [is_form |-> CountIndicators(types.form.indicators, text_lower)
                            >= types.form.min_indicators,
             is_academic |-> CountIndicators(types.academic.indicators, text_lower)
                                >= types.academic.min_indicators,
             is_technical |-> CountIndicators(types.technical.indicators, text_lower)
                                 >= types.technical.min_indicators,
             has_toc |-> \/ Contains(text_lower, Chars("table of contents"))
                         \/ Contains(text_lower, Chars("contents")),
             has_numbered_sections |-> ReSearch(numbered_section_pattern, total_text),
             avg_text_per_page |-> Rat(Len(total_text), Max(1, Min(3, Len(d)))),
             font_variety |-> Cardinality(DOMAIN FontStats(d))],
         page_count |-> Len(d)]

-----------------------------------------------------------------------------
(* TitleExtractor (extractors/title_extractor.py)                          *)
(* A strategy that finds nothing returns the empty text.                   *)

\* ^\d+[.\s]
leading_number_pattern == Plus(Digits) \o One({"."} \cup WhiteSpace)

_extract_form_title(lines, config) ==
    LET form_config == config.document_types.form
        ok == {i \in 1..Min(20, Len(lines)) :
                 /\ Len(lines[i]) > 20 /\ Len(lines[i]) < 120
                 /\ \E keyword \in form_config.title_keywords :
                       Contains(Lower(lines[i]), keyword)
                 /\ ~ \E avoid \in form_config.avoid_keywords :
                       Contains(Lower(lines[i]), avoid)
                 /\ ~EndsWith(lines[i], <<":">>)
                 /\ ~ReMatch(leading_number_pattern, lines[i])}
    IN  IF ok = {} THEN <<>> ELSE lines[SetMin(ok)]

\* [A-Z]{2,}_[A-Z]{2,}
constant_name_pattern == AtLeast(Uppers, 2) \o Lit("_") \o AtLeast(Uppers, 2)

\* the test of _extract_font_based_title on one span text
FontTitleOk(text, config) ==
    /\ Len(text) > 15 /\ Len(text) < 200
    /\ ~ \E avoid \in config.filtering.avoid_general : Contains(Lower(text), avoid)
    /\ ~ReSearch(constant_name_pattern, text)
    /\ ~(Count(text, <<"_">>) > 2)
    /\ ~(Count(text, <<"-">>) > 5)

_extract_font_based_title(first_page, config) ==
    LET spans == SelectSeq(TextSpans(first_page), LAMBDA sp : Len(sp.text) > 1)
        font_sizes == {spans[i].size : i \in 1..Len(spans)}
        \* sorted(set(font_sizes), reverse=True)[:3]
        top == {sz \in font_sizes : Cardinality({u \in font_sizes : u > sz}) < 3}
        ok == {i \in 1..Len(spans) : spans[i].size \in top /\ FontTitleOk(spans[i].text, config)}
        best == SetMax({spans[i].size : i \in ok})
    IN  IF ok = {} THEN <<>>
        ELSE spans[SetMin({i \in ok : spans[i].size = best})].text

\* str.startswith of a tuple of prefixes
StartsWithAny(t, prefixes) == \E prefix \in prefixes : StartsWith(t, prefix)

_is_likely_title(line) ==
    LET text == Strip(line)
        word_count == Len(Split(text))
    IN  /\ ~(Len(text) < 10 \/ Len(text) > 200)
        /\ \E i \in 1..Len(text) : text[i] \in Uppers
        /\ \E i \in 1..Len(text) : text[i] \in LowerCased
        /\ 2 <= word_count /\ word_count <= 15
        /\ ~StartsWithAny(text, {Chars("page"), Chars("p."), Chars("section"),
                                 Chars("chapter")})
        /\ ~(Count(text, <<".">>) > 3)
        /\ ~(Count(text, <<"_">>) > 2)

_is_continuation_line(line) ==
    LET text == Strip(line)
    IN  /\ ~(Len(text) < 5 \/ Len(text) > 100)
        /\ ~ \E i \in 1..Min(3, Len(text)) : text[i] \in Digits
        /\ ~StartsWithAny(text, {Chars("page"), Chars("p."), Chars("section")})
        /\ Count(text, <<".">>) <= 1

\* the title built from line i and the continuation lines j.. that follow it
RECURSIVE BuildFullTitle(_, _, _, _)
BuildFullTitle(lines, i, j, full_title) ==
    IF j > Min(i + 2, Len(lines)) THEN full_title
    ELSE LET next_line == Strip(lines[j])
         IN  IF /\ Len(next_line) > 10 /\ Len(next_line) < 100
                /\ _is_continuation_line(next_line)
             THEN BuildFullTitle(lines, i, j + 1, full_title \o <<" ">> \o next_line)
             ELSE full_title

_extract_generic_title(lines) ==
    LET ok == {i \in 1..Min(15, Len(lines)) :
                 /\ Len(Strip(lines[i])) > 15 /\ Len(Strip(lines[i])) < 200
                 /\ _is_likely_title(Strip(lines[i]))
                 /\ Len(BuildFullTitle(lines, i, i + 1, Strip(lines[i]))) > 30}
    IN  IF ok = {} THEN <<>>
        ELSE BuildFullTitle(lines, SetMin(ok), SetMin(ok) + 1, Strip(lines[SetMin(ok)]))

_extract_fallback_title(lines, config) ==
    LET ok == {i \in 1..Min(10, Len(lines)) :
                 /\ Len(lines[i]) > 10 /\ Len(lines[i]) < 150
                 /\ ~ \E avoid \in config.filtering.avoid_metadata :
                       Contains(Lower(lines[i]), avoid)
                 /\ ~(Count(lines[i], <<"-">>) > 5)}
    IN  IF ok = {} THEN <<>> ELSE lines[SetMin(ok)]

\* the last strategy of the waterfall that finds a title
LastStrategy(first_page, doc_profile, config) ==
    LET lines == PlainLines(first_page)
        form == IF doc_profile.structure.is_form
                THEN _extract_form_title(lines, config) ELSE <<>>
        font == _extract_font_based_title(first_page, config)
        generic == _extract_generic_title(lines)
        fallback == _extract_fallback_title(lines, config)
    IN  IF fallback # <<>> THEN fallback
        ELSE IF generic # <<>> THEN generic
        ELSE IF font # <<>> THEN font
        ELSE form

\* the first strategy of the waterfall that finds a title
FirstStrategy(first_page, doc_profile, config) ==
    LET lines == PlainLines(first_page)
        form == IF doc_profile.structure.is_form
                THEN _extract_form_title(lines, config) ELSE <<>>
        font == _extract_font_based_title(first_page, config)
        generic == _extract_generic_title(lines)
    IN  IF form # <<>> THEN form
        ELSE IF font # <<>> THEN font
        ELSE IF generic # <<>> THEN generic
        ELSE _extract_fallback_title(lines, config)

event_indicators == {Chars("party"), Chars("jump"), Chars("event")}

\* TitleExtractor.extract_title(doc, doc_profile) for a document with a first
\* page; doc[0] raises IndexError otherwise
extract_title(d, doc_profile, config) ==
    LET strategy == FirstStrategy(d[1], doc_profile, config)
    IN  IF strategy = <<>> THEN <<>>
        ELSE IF \E indicator \in event_indicators :
                   Contains(Lower(doc_profile.text_sample), indicator)
        THEN <<>>
        ELSE strategy

-----------------------------------------------------------------------------
(* Fragment reconstruction (HeadingExtractor._reconstruct_text_blocks)     *)
(* A line record is [text, size, bold, bbox, y_pos].                       *)

\* combined text of a group without the whitespace normalisation
ReconstructTextRaw(text_group) ==
    IF text_group = <<>> THEN <<>>
    ELSE Strip(Join([i \in 1..Len(text_group) |-> text_group[i].text]))

_reconstruct_fragmented_text(text_group) ==
    IF text_group = <<>> THEN <<>>
    ELSE Join(Split(Strip(Join([i \in 1..Len(text_group) |-> text_group[i].text]))))

\* the merge test with the bold state ignored
ShouldMergeAnyStyle(current_line, prev_line, config) ==
    LET dc == config.extraction.distance_thresholds
        large == config.extraction.font_thresholds.title_font_threshold
        delta == Abs(current_line.size - prev_line.size)
        y_distance == Abs(current_line.y_pos - prev_line.y_pos)
        bothLarge == current_line.size > large /\ prev_line.size > large
    IN  /\ IF bothLarge THEN delta < dc.large_font_tolerance
                        ELSE delta < dc.font_size_tolerance
        /\ IF bothLarge THEN y_distance < dc.large_font_distance
                        ELSE y_distance < dc.grouping_distance

\* the merge test with the relaxed pair applied when either line is large
ShouldMergeEitherLarge(current_line, prev_line, config) ==
    LET dc == config.extraction.distance_thresholds
        large == config.extraction.font_thresholds.title_font_threshold
        delta == Abs(current_line.size - prev_line.size)
        y_distance == Abs(current_line.y_pos - prev_line.y_pos)
        anyLarge == current_line.size > large \/ prev_line.size > large
    IN  /\ IF anyLarge THEN delta < dc.large_font_tolerance
                       ELSE delta < dc.font_size_tolerance
        /\ IF anyLarge THEN y_distance < dc.large_font_distance
                       ELSE y_distance < dc.grouping_distance
        /\ current_line.bold = prev_line.bold

\* size_similar and close_vertically and same_style of the loop body
ShouldMerge(current_line, prev_line, config) ==
    LET dc == config.extraction.distance_thresholds
        large_font_threshold == config.extraction.font_thresholds.title_font_threshold
        delta == Abs(current_line.size - prev_line.size)
        y_distance == Abs(current_line.y_pos - prev_line.y_pos)
        bothLarge == /\ current_line.size > large_font_threshold
                     /\ prev_line.size > large_font_threshold
        size_similar == IF bothLarge THEN delta < dc.large_font_tolerance
                        ELSE delta < dc.font_size_tolerance
        close_vertically == IF bothLarge THEN y_distance < dc.large_font_distance
                            ELSE y_distance < dc.grouping_distance
        same_style == current_line.bold = prev_line.bold
    IN  size_similar /\ close_vertically /\ same_style

RECURSIVE SumSizes(_)
SumSizes(group) == IF group = <<>> THEN 0 ELSE Head(group).size + SumSizes(Tail(group))

\* the record appended for a closed group
FragmentOf(current_group, pnum) ==
    LET combined_text == _reconstruct_fragmented_text(current_group)
    IN  [text |-> combined_text,
         size |-> Rat(SumSizes(current_group), Len(current_group)),
         bold |-> current_group[1].bold,
         page |-> pnum + 1,
         length |-> Len(combined_text),
         bbox |-> current_group[1].bbox]

\* the lines of a group; a group is the sequence of the indices of its lines
GroupLines(lines, group) == [k \in 1..Len(group) |-> lines[group[k]]]

\* closing a group emits a record whatever the length of its text
CloseGroupKeepShort(acc, lines, current_group, pnum) ==
    [texts |-> Append(acc.texts, FragmentOf(GroupLines(lines, current_group), pnum)),
     groups |-> Append(acc.groups, current_group)]

\* closing a group: its record is appended when the text is longer than 5
CloseGroup(acc, lines, current_group, pnum) ==
    [texts |-> IF Len(_reconstruct_fragmented_text(GroupLines(lines, current_group))) > 5
               THEN Append(acc.texts, FragmentOf(GroupLines(lines, current_group), pnum))
               ELSE acc.texts,
     groups |-> Append(acc.groups, current_group)]

\* the loop from iteration i on; acc holds reconstructed_texts and the groups
\* closed so far; prev_line is the last line of current_group
RECURSIVE ReconstructLoop(_, _, _, _, _, _)
ReconstructLoop(lines, i, current_group, acc, pnum, config) ==
    IF i > Len(lines) THEN CloseGroup(acc, lines, current_group, pnum)
    ELSE IF ShouldMerge(lines[i], lines[current_group[Len(current_group)]], config)
         THEN ReconstructLoop(lines, i + 1, Append(current_group, i), acc, pnum, config)
         ELSE ReconstructLoop(lines, i + 1, <<i>>,
                              CloseGroup(acc, lines, current_group, pnum), pnum, config)

\* _reconstruct_text_blocks(lines_info, page_num); lines_info is not empty
_reconstruct_text_blocks(lines, pnum, config) ==
    ReconstructLoop(lines, 2, <<1>>, [texts |-> <<>>, groups |-> <<>>], pnum, config)

-----------------------------------------------------------------------------
(* Heading candidates (HeadingExtractor._get_ml_heading_candidates and the *)
(* clustering behind it)                                                   *)

\* the first pass over a page: a line record for every line longer than 3
LinesInfo(page) ==
    LET spans == SelectSeq(TextSpans(page), LAMBDA sp : Len(sp.text) > 3)
    IN  [i \in 1..Len(spans) |->
            [text |-> spans[i].text, size |-> Max(0, spans[i].size),
             bold |-> spans[i].bold, bbox |-> spans[i].bbox,
             y_pos |-> spans[i].bbox[2]]]

\* lines_info.sort(key=y_pos): a stable sort
SortLines(lines) ==
    LET pos(i) == 1 + Cardinality({j \in 1..Len(lines) :
                        \/ lines[j].y_pos < lines[i].y_pos
                        \/ lines[j].y_pos = lines[i].y_pos /\ j < i})
    IN  [k \in 1..Len(lines) |-> lines[CHOOSE i \in 1..Len(lines) : pos(i) = k]]

\* all_texts: the reconstructed blocks of every page that has lines
AllTexts(d, config) ==
    Flatten([p \in 1..Len(d) |->
                IF LinesInfo(d[p]) = <<>> THEN <<>>
                ELSE _reconstruct_text_blocks(SortLines(LinesInfo(d[p])), p - 1, config).texts])

section_keywords ==
    {Chars("introduction"), Chars("overview"), Chars("conclusion"), Chars("summary"),
     Chars("background"), Chars("methodology"), Chars("results"), Chars("discussion"),
     Chars("references")}

\* ^\d+\.
section_number_pattern == Plus(Digits) \o Lit(".")

\* the sum of the (rational) sizes of the texts from index i on
RECURSIVE SumRat(_, _)
SumRat(texts, i) ==
    IF i > Len(texts) THEN RatOfInt(0) ELSE RatAdd(texts[i].size, SumRat(texts, i + 1))

\* _calculate_cluster_score with the means it is given computed from texts:
\* avg_size = sum of sizes / n, avg_length = sum of lengths / n,
\* bold_ratio = bold texts / n
_calculate_cluster_score(texts, config) ==
    LET n == Len(texts)
        font_threshold == config.extraction.font_thresholds.min_heading_size
        large_font_threshold == config.extraction.font_thresholds.large_font_threshold
        max_length == config.extraction.text_limits.max_simple_heading
        size_sum == SumRat(texts, 1)
        length_sum == SumLen([i \in 1..n |-> texts[i].text])
        bolds == Cardinality({i \in 1..n : texts[i].bold})
        early == Cardinality({i \in 1..n : texts[i].page <= 3})
        titled == Cardinality({i \in 1..n : IsTitle(texts[i].text)})
        has_numbered_sections ==
            \E i \in 1..n : ReMatch(section_number_pattern, texts[i].text)
        has_section_keywords ==
            \E i \in 1..n : \E keyword \in section_keywords :
                Contains(Lower(texts[i].text), keyword)
    IN  (IF RatGT(size_sum, RatOfInt(large_font_threshold * n)) THEN 3
         ELSE IF RatGT(size_sum, RatOfInt(font_threshold * n)) THEN 2 ELSE 0)
        + (IF length_sum < 30 * n THEN 3
           ELSE IF length_sum < max_length * n THEN 2 ELSE 0)
        + (IF 10 * bolds > 7 * n THEN 3
           ELSE IF 10 * bolds > 3 * n THEN 2 ELSE 0)
        + (IF has_numbered_sections THEN 4 ELSE 0)
        + (IF has_section_keywords THEN 3 ELSE 0)
        + (IF 2 * early > n THEN 2 ELSE 0)
        + (IF 2 * titled > n THEN 2 ELSE 0)

\* the cluster labels in the order cluster_stats meets them
RECURSIVE LabelsInOrder(_, _, _)
LabelsInOrder(clusters, i, acc) ==
    IF i > Len(clusters) THEN acc
    ELSE LabelsInOrder(clusters, i + 1,
                       IF \E k \in 1..Len(acc) : acc[k] = clusters[i]
                       THEN acc ELSE Append(acc, clusters[i]))

\* the texts of one cluster, in order
ClusterTexts(all_texts, clusters, label) ==
    LET idx == SelectSeq([i \in 1..Len(all_texts) |-> i], LAMBDA i : clusters[i] = label)
    IN  [k \in 1..Len(idx) |-> all_texts[idx[k]]]

\* every cluster is selected, whatever its score
SelectEveryCluster(all_texts, clusters, config) ==
    LET labels == LabelsInOrder(clusters, 1, <<>>)
    IN  Flatten([k \in 1..Len(labels) |-> ClusterTexts(all_texts, clusters, labels[k])])

_select_heading_candidates(all_texts, clusters, config) ==
    LET labels == LabelsInOrder(clusters, 1, <<>>)
    IN  Flatten([k \in 1..Len(labels) |->
                    LET texts == ClusterTexts(all_texts, clusters, labels[k])
                    IN  IF _calculate_cluster_score(texts, config) >= 5
                        THEN texts ELSE <<>>])

\* n_clusters of _cluster_headings
NClusters(n, config) ==
    Min(config.extraction.clustering.max_clusters,
        n \div config.extraction.clustering.cluster_ratio)

\* KMeans is called from five fragments on, whatever n_clusters is
ClustersFromFive(all_texts, config) ==
    ~(Len(all_texts) < 5)

\* whether _get_ml_heading_candidates hands all_texts to KMeans
Clusters(all_texts, config) ==
    /\ ~(Len(all_texts) < 5)
    /\ ~(NClusters(Len(all_texts), config) < config.extraction.clustering.min_clusters)

\* what KMeans.fit_predict may return for n points and k clusters: a label
\* for every point.  Labels are names, so a labelling is listed once, with
\* its labels numbered in the order they first occur.
Labelings(n, k) ==
    {f \in [1..n -> 1..k] :
        \A i \in 1..n : f[i] <= 1 + Cardinality({f[j] : j \in 1..(i - 1)})}

\* what the tail of _get_ml_heading_candidates may do with all_texts: the
\* labels KMeans returned (<<>> when it was not called) and the list returned
ClusterOutcomes(all_texts, config) ==
    IF ~Clusters(all_texts, config)
    THEN {[clusters |-> <<>>, candidates |-> all_texts]}
    ELSE {[clusters |-> labels,
           candidates |-> _select_heading_candidates(all_texts, labels, config)] :
            labels \in Labelings(Len(all_texts), NClusters(Len(all_texts), config))}

\* the results _get_ml_heading_candidates may return
MlHeadingCandidates(d, config) ==
    LET all_texts == AllTexts(d, config)
    IN  IF ~Clusters(all_texts, config) THEN {all_texts}
        ELSE {_select_heading_candidates(all_texts, clusters, config) :
                clusters \in Labelings(Len(all_texts), NClusters(Len(all_texts), config))}

-----------------------------------------------------------------------------
(* HeadingFilter (extractors/filters/heading_filter.py)                    *)

\* filtering.noise_patterns, matched with re.IGNORECASE: the letters of the
\* patterns are matched against the lower-cased text
noise_patterns ==
    {Plus(WhiteSpace \cup {"-", "_", "."}) \o End,
     Plus(Digits) \o End,
     Star(AllChars \ (WordChars \cup WhiteSpace)) \o End,
     Lit("page") \o Star(WhiteSpace) \o Plus(Digits),
     Lit("p.") \o Star(WhiteSpace) \o Plus(Digits),
     Star(WhiteSpace) \o Plus(Digits) \o Star(WhiteSpace) \o Lit("/")
        \o Star(WhiteSpace) \o Plus(Digits) \o Star(WhiteSpace) \o End}

\* len(set(text))
UniqueChars(t) == Cardinality(Range(t))

\* the noise test with the two character counts taken over the characters
\* outside the ideographs
IsNoiseTextLatinOnly(text, config) ==
    LET text_clean == Strip(text)
        latin == SelectSeq(text_clean, LAMBDA c : c \notin Ideographs)
        fc == config.filtering
    IN  \/ \E pattern \in noise_patterns : ReMatch(pattern, Lower(text_clean))
        \/ Len(latin) < fc.min_unique_chars
        \/ Count(text_clean, <<" ">>) * fc.max_space_ratio.d
              > fc.max_space_ratio.n * Max(1, Len(text_clean))
        \/ UniqueChars(latin) < fc.min_unique_chars

_is_noise_text(text, config) ==
    LET text_clean == Strip(text)
        fc == config.filtering
    IN  \/ \E pattern \in noise_patterns : ReMatch(pattern, Lower(text_clean))
        \/ Len(text_clean) < fc.min_unique_chars
        \/ Count(text_clean, <<" ">>) * fc.max_space_ratio.d
              > fc.max_space_ratio.n * Max(1, Len(text_clean))
        \/ UniqueChars(text_clean) < fc.min_unique_chars

sentence_starters ==
    {Chars("those"), Chars("these"), Chars("this"), Chars("that"), Chars("when"),
     Chars("where"), Chars("while"), Chars("during"), Chars("after"),
     Chars("before"), Chars("since"), Chars("until"), Chars("although"),
     Chars("however"), Chars("therefore"), Chars("moreover"), Chars("furthermore"),
     Chars("in addition"), Chars("for example"), Chars("such as")}

\* \b(version|v\d+|\d{4}|\d+/\d+|\d+-\d+)\b
version_date_patterns ==
    {WordB \o Lit("version") \o WordB,
     WordB \o Lit("v") \o Plus(Digits) \o WordB,
     WordB \o Times(Digits, 4) \o WordB,
     WordB \o Plus(Digits) \o Lit("/") \o Plus(Digits) \o WordB,
     WordB \o Plus(Digits) \o Lit("-") \o Plus(Digits) \o WordB}

\* \bpage\s+\d+|\bp\.\s*\d+|\bpp\.\s*\d+
page_reference_patterns ==
    {WordB \o Lit("page") \o Plus(WhiteSpace) \o Plus(Digits),
     WordB \o Lit("p.") \o Star(WhiteSpace) \o Plus(Digits),
     WordB \o Lit("pp.") \o Star(WhiteSpace) \o Plus(Digits)}

_is_unlikely_heading(text) ==
    LET text_clean == Strip(text)
        text_lower == Lower(text_clean)
    IN  \/ \E starter \in sentence_starters : StartsWith(text_lower, starter)
        \/ Len(text_clean) > 120 /\ Contains(text_clean, <<".">>)
        \/ \E pattern \in version_date_patterns : ReSearch(pattern, text_lower)
        \/ \E pattern \in page_reference_patterns : ReSearch(pattern, text_lower)
        \/ Count(text_lower, Chars(" be ")) > 1
        \/ Count(text_lower, Chars(" shall ")) > 0
        \/ Count(text_lower, Chars(" must ")) > 0
        \/ Count(text_lower, Chars(" will ")) > 1
        \/ Count(text_clean, <<".">>) > 1 /\ Len(text_clean) > 50

\* the fragment test of filter_candidates: several words of average length
\* below min_word_avg_length
LooksFragmented(text, config) ==
    LET words == Split(text)
    IN  /\ Len(words) > 1
        /\ SumLen(words) < config.extraction.text_limits.min_word_avg_length * Len(words)

\* the branch of _passes_document_filters the profile selects
DocBranch(doc_profile) ==
    IF doc_profile.structure.is_form THEN "form"
    ELSE IF doc_profile.structure.is_academic THEN "academic"
    ELSE IF doc_profile.structure.is_technical THEN "technical"
    ELSE "simple"

\* _passes_document_filters raises KeyError: the branch reads a key of
\* text_limits that the configuration does not hold
DocumentFiltersRaise(text, doc_profile, config) ==
    LET text_limits == config.extraction.text_limits
        key == CASE DocBranch(doc_profile) = "form" -> "max_form_heading"
                 [] DocBranch(doc_profile) = "academic" -> "max_academic_heading"
                 [] DocBranch(doc_profile) = "technical" -> "max_technical_heading"
                 [] OTHER -> "max_simple_heading"
    IN  /\ ~(Len(text) < text_limits.min_text_length)
        /\ key \notin DOMAIN text_limits

\* the branches in the order academic, form, technical, simple
PassesDocumentFiltersAcademicFirst(text, text_lower, doc_profile, config) ==
    LET text_limits == config.extraction.text_limits
        types == config.document_types
    IN  IF doc_profile.structure.is_academic
        THEN ~ \/ Len(text) < text_limits.min_text_length
               \/ Len(text) > text_limits.max_academic_heading
               \/ Count(text, <<".">>) > types.academic.max_dots
        ELSE IF doc_profile.structure.is_form
        THEN ~ \/ Len(text) < text_limits.min_text_length
               \/ Len(text) > text_limits.max_form_heading
               \/ Contains(text, <<":">>)
               \/ \E field \in types.form.avoid_fields : Contains(text_lower, field)
        ELSE IF doc_profile.structure.is_technical
        THEN ~ \/ Len(text) < text_limits.min_text_length
               \/ Len(text) > text_limits.max_technical_heading
               \/ Count(text, <<"(">>) > types.technical.max_parentheses
        ELSE ~ \/ Len(text) < text_limits.min_text_length
               \/ Len(text) > text_limits.max_simple_heading
               \/ Count(text, <<"(">>) > 2
               \/ Count(text, <<"_">>) > types.simple.max_underscores
               \/ \E pattern \in types.simple.avoid_patterns :
                     Contains(text_lower, pattern)

\* _passes_document_filters, where it does not raise
_passes_document_filters(text, text_lower, doc_profile, config) ==
    LET text_limits == config.extraction.text_limits
        types == config.document_types
    IN  IF doc_profile.structure.is_form
        THEN ~ \/ Len(text) < text_limits.min_text_length
               \/ Len(text) > text_limits.max_form_heading
               \/ Contains(text, <<":">>)
               \/ \E field \in types.form.avoid_fields : Contains(text_lower, field)
        ELSE IF doc_profile.structure.is_academic
        THEN ~ \/ Len(text) < text_limits.min_text_length
               \/ Len(text) > text_limits.max_academic_heading
               \/ Count(text, <<".">>) > types.academic.max_dots
        ELSE IF doc_profile.structure.is_technical
        THEN ~ \/ Len(text) < text_limits.min_text_length
               \/ Len(text) > text_limits.max_technical_heading
               \/ Count(text, <<"(">>) > types.technical.max_parentheses
        ELSE ~ \/ Len(text) < text_limits.min_text_length
               \/ Len(text) > text_limits.max_simple_heading
               \/ Count(text, <<"(">>) > 2
               \/ Count(text, <<"_">>) > types.simple.max_underscores
               \/ \E pattern \in types.simple.avoid_patterns :
                     Contains(text_lower, pattern)

_has_good_heading_structure(text, config) ==
    /\ text[1] \in AlNum
    /\ ~(IsUpper(text) /\ Len(text) > config.extraction.font_thresholds.max_caps_length)
    /\ ~(EndsWith(text, <<".">>) \/ EndsWith(text, <<"!">>) \/ EndsWith(text, <<"?">>))

\* set(text.lower().split())
WordSet(text) == Range(Split(Lower(text)))

\* the word sets are the same
JaccardEqualOnly(a, b) == WordSet(a) = WordSet(b)

\* the overlap of the word sets exceeds 0.8
JaccardAbove80(a, b) ==
    5 * Cardinality(WordSet(a) \cap WordSet(b))
        > 4 * Max(1, Cardinality(WordSet(a) \cup WordSet(b)))

\* seen_texts is kept as the sequence of the texts added, in order
_is_repetitive_content(text, seen_texts) ==
    \E i \in 1..Len(seen_texts) : JaccardAbove80(text, seen_texts[i])

AsciiLowers == Lowers

heading_patterns ==
    {Plus(Digits) \o Opt({"."}) \o Plus(WhiteSpace) \o One(AsciiLowers)}
    \cup {Plus(AsciiLowers) \o Plus(WhiteSpace) \o Lit(w) :
            w \in {"overview", "introduction", "summary", "conclusion"}}
    \cup {Lit(w) : w \in {"overview", "introduction", "background", "summary",
                          "conclusion", "references"}}
    \cup {Lit("chapter") \o Plus(WhiteSpace) \o Plus(Digits),
          Lit("section") \o Plus(WhiteSpace) \o Plus(Digits),
          Lit("appendix") \o Plus(WhiteSpace) \o One(AsciiLowers)}

instructional_words ==
    {Chars("will"), Chars("shall"), Chars("must"), Chars("should"), Chars("can"),
     Chars("may")}

_is_likely_heading_content(text) ==
    LET text_lower == Lower(text)
    IN  \/ \E pattern \in heading_patterns : ReMatch(pattern, text_lower)
        \/ /\ Len(Split(text)) <= 6
           /\ Len(text) <= 80
           /\ ~ \E word \in instructional_words : Contains(text_lower, word)

\* the outcome of one iteration of the loop of filter_candidates:
\* "raise", "keep" or "skip"
FilterStep(candidate, seen_texts, doc_profile, config) ==
    LET text == Strip(candidate.text)
        text_lower == Lower(text)
    IN  IF \E i \in 1..Len(seen_texts) : seen_texts[i] = text THEN "skip"
        ELSE IF _is_noise_text(text, config) \/ _is_unlikely_heading(text) THEN "skip"
        ELSE IF Len(text) < 8 THEN "skip"
        ELSE IF LooksFragmented(text, config) THEN "skip"
        ELSE IF DocumentFiltersRaise(text, doc_profile, config) THEN "raise"
        ELSE IF ~_passes_document_filters(text, text_lower, doc_profile, config)
        THEN "skip"
        ELSE IF /\ _has_good_heading_structure(text, config)
                /\ ~_is_repetitive_content(text, seen_texts)
                /\ _is_likely_heading_content(text)
        THEN "keep"
        ELSE "skip"

\* the loop from candidate i on; the result is [raised, kept]
RECURSIVE FilterLoop(_, _, _, _, _, _)
FilterLoop(cands, i, kept, seen_texts, doc_profile, config) ==
    IF i > Len(cands) THEN [raised |-> FALSE, kept |-> kept]
    ELSE LET step == FilterStep(cands[i], seen_texts, doc_profile, config)
         IN  IF step = "raise" THEN [raised |-> TRUE, kept |-> <<>>]
             ELSE IF step = "keep"
             THEN FilterLoop(cands, i + 1, Append(kept, cands[i]),
                             Append(seen_texts, Strip(cands[i].text)),
                             doc_profile, config)
             ELSE FilterLoop(cands, i + 1, kept, seen_texts, doc_profile, config)

\* the loop entered at the second candidate
FilterCandidatesSkipFirst(cands, doc_profile, config) ==
    FilterLoop(cands, 2, <<>>, <<>>, doc_profile, config)

\* HeadingFilter.filter_candidates(candidates, doc_profile)
filter_candidates(cands, doc_profile, config) ==
    FilterLoop(cands, 1, <<>>, <<>>, doc_profile, config)

-----------------------------------------------------------------------------
(* LevelDeterminer (extractors/hierarchy/level_determiner.py)              *)

\* Factor 1: numbering patterns of the raw text; "" when none matches
StructuralLevelRomanFirst(text) ==
    IF ReMatch(Plus(Digits) \o Lit(".") \o Plus(WhiteSpace) \o One(Uppers), text)
    THEN "H1"
    ELSE IF ReMatch(Plus(Digits) \o Lit(".") \o Plus(Digits) \o Plus(WhiteSpace)
                    \o One(Uppers), text)
    THEN "H2"
    ELSE IF ReMatch(Plus(Digits) \o Lit(".") \o Plus(Digits) \o Lit(".") \o Plus(Digits)
                    \o Plus(WhiteSpace) \o One(Uppers), text)
    THEN "H3"
    ELSE IF ReMatch(Plus({"I", "V", "X"}) \o Lit(".") \o Plus(WhiteSpace) \o One(Uppers),
                    text)
    THEN "H1"
    ELSE IF ReMatch(One(Uppers) \o Lit(".") \o Plus(WhiteSpace) \o One(Uppers), text)
    THEN "H2"
    ELSE ""

_get_structural_level(text) ==
    IF ReMatch(Plus(Digits) \o Lit(".") \o Plus(WhiteSpace) \o One(Uppers), text)
    THEN "H1"
    ELSE IF ReMatch(Plus(Digits) \o Lit(".") \o Plus(Digits) \o Plus(WhiteSpace)
                    \o One(Uppers), text)
    THEN "H2"
    ELSE IF ReMatch(Plus(Digits) \o Lit(".") \o Plus(Digits) \o Lit(".") \o Plus(Digits)
                    \o Plus(WhiteSpace) \o One(Uppers), text)
    THEN "H3"
    ELSE IF ReMatch(One(Uppers) \o Lit(".") \o Plus(WhiteSpace) \o One(Uppers), text)
    THEN "H2"
    ELSE IF ReMatch(Plus({"I", "V", "X"}) \o Lit(".") \o Plus(WhiteSpace) \o One(Uppers),
                    text)
    THEN "H1"
    ELSE ""

main_section_keywords ==
    {Chars("introduction"), Chars("overview"), Chars("background"),
     Chars("conclusion"), Chars("summary"), Chars("methodology"), Chars("results"),
     Chars("discussion"), Chars("references"), Chars("appendix")}

toc_keywords ==
    {Chars("table of contents"), Chars("contents"), Chars("revision history"),
     Chars("references")}

\* Factor 2: content keywords
_get_content_based_level(text) ==
    LET text_lower == Lower(text)
    IN  IF \E kw \in main_section_keywords : Contains(text_lower, kw) THEN "H1"
        ELSE IF \E kw \in toc_keywords : Contains(text_lower, kw) THEN "H2"
        ELSE ""

\* Factor 3: position in the document
_get_position_based_level(candidate) ==
    IF candidate.page <= 2 /\ Len(candidate.text) < 50 THEN "H1" ELSE ""

\* dict.get('bold', False)
GetBold(c) == IF "bold" \in DOMAIN c THEN c.bold ELSE FALSE

\* size is among the distinct sizes ranked lo+1..hi from the largest
\* (size in unique_sizes[lo:hi])
SizeInRanks(size, all_candidates, lo, hi) ==
    LET sizes == {all_candidates[i].size : i \in 1..Len(all_candidates)}
        rank == Cardinality({s \in sizes : RatGT(s, size)})
    IN  size \in sizes /\ lo <= rank /\ rank < hi

\* Factor 4: combined score
_get_score_based_level(candidate, all_candidates) ==
    LET text == candidate.text
        size == candidate.size
        sizePts == IF SizeInRanks(size, all_candidates, 0, 1) THEN 3
                   ELSE IF SizeInRanks(size, all_candidates, 1, 2) THEN 2
                   ELSE IF SizeInRanks(size, all_candidates, 2, 3) THEN 1
                   ELSE 0
        boldPts == IF GetBold(candidate) THEN 2 ELSE 0
        lenPts == IF Len(text) < 20 THEN 2 ELSE IF Len(text) < 40 THEN 1 ELSE 0
        pagePts == IF candidate.page <= 3 THEN 1 ELSE 0
        capPts == IF IsTitle(text) \/ (Len(Split(text)) <= 3 /\ IsUpper(text))
                  THEN 1 ELSE 0
        score == sizePts + boldPts + lenPts + pagePts + capPts
    IN  IF score >= 6 THEN "H1" ELSE IF score >= 4 THEN "H2" ELSE "H3"

\* the chain with the position rule consulted before the numbering rule
DetermineLevelPositionFirst(candidate, all_candidates) ==
    IF _get_position_based_level(candidate) # ""
    THEN _get_position_based_level(candidate)
    ELSE IF _get_structural_level(candidate.text) # ""
    THEN _get_structural_level(candidate.text)
    ELSE IF _get_content_based_level(candidate.text) # ""
    THEN _get_content_based_level(candidate.text)
    ELSE _get_score_based_level(candidate, all_candidates)

_determine_heading_level(candidate, all_candidates) ==
    IF _get_structural_level(candidate.text) # ""
    THEN _get_structural_level(candidate.text)
    ELSE IF _get_content_based_level(candidate.text) # ""
    THEN _get_content_based_level(candidate.text)
    ELSE IF _get_position_based_level(candidate) # ""
    THEN _get_position_based_level(candidate)
    ELSE _get_score_based_level(candidate, all_candidates)

\* key of the sort: (page, bbox[1] if bbox else 0)
PageYLess(a, b) ==
    \/ a.page < b.page
    \/ a.page = b.page /\ a.bbox[2] < b.bbox[2]

\* candidates.sort(...) of build_hierarchy, which also reorders the caller's
\* list.  The sort is stable: element i goes after the elements with a
\* smaller key and the earlier elements with an equal key.
SortCandidates(cands) ==
    LET pos(i) == 1 + Cardinality({j \in 1..Len(cands) :
                        \/ PageYLess(cands[j], cands[i])
                        \/ j < i /\ ~PageYLess(cands[i], cands[j])})
    IN  [k \in 1..Len(cands) |-> cands[CHOOSE i \in 1..Len(cands) : pos(i) = k]]

\* build_hierarchy with the page left 1-based
BuildHierarchyOneBased(cands) ==
    LET sorted == SortCandidates(cands)
    IN  [i \in 1..Len(sorted) |->
            [level |-> _determine_heading_level(sorted[i], sorted),
             text |-> sorted[i].text,
             page |-> sorted[i].page]]

build_hierarchy(cands) ==
    LET sorted == SortCandidates(cands)
    IN  [i \in 1..Len(sorted) |->
            [level |-> _determine_heading_level(sorted[i], sorted),
             text |-> sorted[i].text,
             page |-> sorted[i].page - 1]]


-----------------------------------------------------------------------------
(* LayoutLMv3Enhancer (enhancers/layoutlmv3_enhancer.py)                   *)
(* The transformer is outside the program.  What it returns for a page     *)
(* with words is the value of the variable predictions: every position     *)
(* gets the label prediction_id with confidence confidence (hundredths),   *)
(* and aligned tells whether there is one position per word; when there is *)
(* not, the model has one position more than the page has words.           *)

label_map ==
    [i \in 0..8 |->
        CASE i = 0 -> Chars("O")
          [] i = 1 -> Chars("B-H1") [] i = 2 -> Chars("I-H1")
          [] i = 3 -> Chars("B-H2") [] i = 4 -> Chars("I-H2")
          [] i = 5 -> Chars("B-H3") [] i = 6 -> Chars("I-H3")
          [] i = 7 -> Chars("B-TITLE") [] i = 8 -> Chars("I-TITLE")]

\* confidence_thresholds, in hundredths
confidence_thresholds == [title |-> 80, h1 |-> 70, h2 |-> 60, h3 |-> 50]

\* confidence_thresholds.get(level, 0.5)
ThresholdFor(level) ==
    IF level \in DOMAIN confidence_thresholds THEN confidence_thresholds[level] ELSE 50

\* "" stands for None
_label_to_level(label) ==
    IF Contains(label, Chars("H1")) THEN "H1"
    ELSE IF Contains(label, Chars("H2")) THEN "H2"
    ELSE IF Contains(label, Chars("H3")) THEN "H3"
    ELSE IF Contains(label, Chars("TITLE")) THEN "TITLE"
    ELSE ""

\* the words of _extract_words_and_boxes
PageWords(page) ==
    Flatten([i \in 1..Len(TextSpans(page)) |-> Split(TextSpans(page)[i].text)])

\* doc[pnum] of PyMuPDF: a negative index counts from the last page
PageAt(d, pnum) == d[(pnum % Len(d)) + 1]

\* the number of predictions _analyze_page_with_layoutlm returns for a page
PredictionCount(page, preds) ==
    IF PageWords(page) = <<>> THEN 0
    ELSE IF preds.aligned THEN Len(PageWords(page))
    ELSE Len(PageWords(page)) + 1

_aggregate_multimodal_features(d, pages_to_analyze, preds) ==
    LET counts == [p \in 1..pages_to_analyze |-> PredictionCount(d[p], preds)]
        total_predictions == SumLen([p \in 1..pages_to_analyze |->
                                        [k \in 1..counts[p] |-> 0]])
        level == _label_to_level(label_map[preds.prediction_id])
        heading_predictions == IF level = "" THEN 0 ELSE total_predictions
    IN  [total_predictions |-> total_predictions,
         heading_predictions |-> heading_predictions,
         heading_ratio |-> IF total_predictions > 0
                           THEN Rat(heading_predictions, total_predictions)
                           ELSE RatOfInt(0),
         avg_confidence |-> IF total_predictions > 0 THEN preds.confidence ELSE 0,
         level_distribution |->
            [l \in {"H1", "H2", "H3", "TITLE"} |->
                IF l = level THEN total_predictions ELSE 0],
         layoutlm_available |-> TRUE]

\* LayoutLMv3Enhancer.enhance_document_analysis(doc, doc_profile); model is
\* whether initialize_model succeeds
enhance_document_analysis(d, doc_profile, model, preds) ==
    IF model # "ready" THEN doc_profile
    ELSE [layoutlm_features |->
            _aggregate_multimodal_features(d, Min(3, Len(d)), preds)] @@ doc_profile

\* _find_text_in_predictions: the best match of the text among the words of
\* the page, <<>> for None
_find_text_in_predictions(text, words, preds) ==
    LET text_words == Split(Lower(text))
        n == Len(text_words)
        matches == {i \in 1..(Len(words) - n + 1) :
                      [k \in 1..n |-> Lower(words[i + k - 1])] = text_words}
        label == label_map[preds.prediction_id]
        level == _label_to_level(label)
    IN  IF ~preds.aligned THEN <<>>
        ELSE IF matches = {} \/ ~(preds.confidence > 0) \/ level = "" THEN <<>>
        ELSE [label |-> label, level |-> level, confidence |-> preds.confidence,
              prediction_id |-> preds.prediction_id]

\* the loop body of _enhance_page_candidates
EnhanceCandidate(candidate, words, preds) ==
    LET layoutlm_prediction ==
            _find_text_in_predictions(Strip(candidate.text), words, preds)
    IN  IF layoutlm_prediction = <<>> THEN candidate
        ELSE LET insights == [layoutlm_label |-> layoutlm_prediction.label,
                              layoutlm_confidence |-> layoutlm_prediction.confidence]
             IN  IF layoutlm_prediction.confidence > ThresholdFor(layoutlm_prediction.level)
                 THEN [level |-> layoutlm_prediction.level,
                       level_source |-> "layoutlmv3"] @@ insights @@ candidate
                 ELSE insights @@ candidate

\* _enhance_page_candidates raises: the analysis of a page without words
\* holds a list, which has no size
EnhancePageRaises(d, pnum) == PageWords(PageAt(d, pnum)) = <<>>

_enhance_page_candidates(cands, d, pnum, preds) ==
    [i \in 1..Len(cands) |->
        EnhanceCandidate(cands[i], PageWords(PageAt(d, pnum)), preds)]

\* the keys of candidates_by_page, in insertion order
RECURSIVE PagesInOrder(_, _, _)
PagesInOrder(cands, i, acc) ==
    IF i > Len(cands) THEN acc
    ELSE PagesInOrder(cands, i + 1,
                      IF \E k \in 1..Len(acc) : acc[k] = cands[i].page - 1
                      THEN acc ELSE Append(acc, cands[i].page - 1))

\* the loop over the pages of enhance_heading_detection raises on some page
HeadingEnhancementRaises(cands, d, model) ==
    /\ model = "ready"
    /\ \E p \in Range(PagesInOrder(cands, 1, <<>>)) :
          p < Len(d) /\ EnhancePageRaises(d, p)

\* a heading enhancement that returns nothing when the model is not ready
\* or a page raises
MultimodalDetectionDropsOnError(cands, d, model, preds) ==
    IF model # "ready" \/ HeadingEnhancementRaises(cands, d, model) THEN <<>>
    ELSE cands

\* LayoutLMv3Enhancer.enhance_heading_detection(candidates, doc, doc_profile):
\* a candidate is looked up on the page numbered one less than its page; an
\* exception on any page returns the candidates as they came
MultimodalHeadingDetection(cands, d, model, preds) ==
    LET pages == PagesInOrder(cands, 1, <<>>)
        group(p) == SelectSeq(cands, LAMBDA c : c.page - 1 = p)
    IN  IF model # "ready" THEN cands
        ELSE IF HeadingEnhancementRaises(cands, d, model) THEN cands
        ELSE Flatten([k \in 1..Len(pages) |->
                        IF pages[k] < Len(d)
                        THEN _enhance_page_candidates(group(pages[k]), d, pages[k], preds)
                        ELSE group(pages[k])])

-----------------------------------------------------------------------------
(* AccuracyEnhancer (accuracy/accuracy_enhancer.py)                        *)
(* Component scores are tenths, a quality score is thousandths.            *)

heading_quality_weights ==
    [structural_pattern |-> 35, content_semantic |-> 25, typography |-> 20,
     position |-> 15, multilingual |-> 5]

\* literal characters of a pattern, given as a text
LitSeq(s) == <<[k |-> "lit", lit |-> s]>>

\* _init_multilingual_patterns: the section keywords and numbering patterns
multilingual_patterns ==
    [japanese |->
        [section_keywords |->
            {<<"U+7AE0">>,
             <<"U+7BC0">>,
             <<"U+9805">>,
             <<"U+6982", "U+8981">>,
             <<"U+80CC", "U+666F">>,
             <<"U+7D50", "U+8AD6">>,
             <<"U+53C2", "U+8003", "U+6587", "U+732E">>,
             <<"U+4ED8", "U+9332">>},
         numbering_patterns |->
            {LitSeq(<<"U+7B2C">>) \o Plus(Digits) \o LitSeq(<<"U+7AE0">>),
             LitSeq(<<"U+7B2C">>) \o Plus(Digits) \o LitSeq(<<"U+7BC0">>),
             Plus(Digits) \o LitSeq(Chars(".")) \o Plus(Digits),
             Plus({"U+4E00", "U+4E8C", "U+4E09", "U+56DB", "U+4E94", "U+516D", "U+4E03", "U+516B", "U+4E5D", "U+5341"}) \o LitSeq(<<"U+7AE0">>)}],
     chinese |->
        [section_keywords |->
            {<<"U+7AE0">>,
             <<"U+8282">>,
             <<"U+6982", "U+8FF0">>,
             <<"U+80CC", "U+666F">>,
             <<"U+7ED3", "U+8BBA">>,
             <<"U+53C2", "U+8003", "U+6587", "U+732E">>,
             <<"U+9644", "U+5F55">>},
         numbering_patterns |->
            {LitSeq(<<"U+7B2C">>) \o Plus(Digits) \o LitSeq(<<"U+7AE0">>),
             LitSeq(<<"U+7B2C">>) \o Plus(Digits) \o LitSeq(<<"U+8282">>),
             Plus(Digits) \o LitSeq(Chars(".")) \o Plus(Digits)}],
     korean |->
        [section_keywords |->
            {<<"U+C7A5">>,
             <<"U+C808">>,
             <<"U+AC1C", "U+C694">>,
             <<"U+BC30", "U+ACBD">>,
             <<"U+ACB0", "U+B860">>,
             <<"U+CC38", "U+ACE0", "U+BB38", "U+D5CC">>,
             <<"U+BD80", "U+B85D">>},
         numbering_patterns |->
            {LitSeq(<<"U+C81C">>) \o Plus(Digits) \o LitSeq(<<"U+C7A5">>),
             LitSeq(<<"U+C81C">>) \o Plus(Digits) \o LitSeq(<<"U+C808">>),
             Plus(Digits) \o LitSeq(Chars(".")) \o Plus(Digits)}],
     arabic |->
        [section_keywords |->
            {<<"U+0641", "U+0635", "U+0644">>,
             <<"U+0628", "U+0627", "U+0628">>,
             <<"U+062E", "U+0644", "U+0627", "U+0635", "U+0629">>,
             <<"U+0645", "U+0642", "U+062F", "U+0645", "U+0629">>,
             <<"U+062E", "U+0627", "U+062A", "U+0645", "U+0629">>,
             <<"U+0645", "U+0631", "U+0627", "U+062C", "U+0639">>},
         numbering_patterns |->
            {Plus(Digits) \o LitSeq(Chars(".")) \o Plus(Digits),
             LitSeq(<<"U+0627", "U+0644", "U+0641", "U+0635", "U+0644">>) \o Plus(WhiteSpace) \o Plus(Digits)}],
     european |->
        [section_keywords |->
            {Chars("introducci") \o <<"U+00F3">> \o Chars("n"),
             Chars("conclusi") \o <<"U+00F3">> \o Chars("n"),
             Chars("r") \o <<"U+00E9">> \o Chars("sum") \o <<"U+00E9">>,
             Chars("einf") \o <<"U+00FC">> \o Chars("hrung"),
             Chars("zusammenfassung")},
         numbering_patterns |->
            {Plus(Digits) \o LitSeq(Chars(".")) \o Plus(Digits),
             LitSeq(Chars("cap") \o <<"U+00ED">> \o Chars("tulo")) \o Plus(WhiteSpace) \o Plus(Digits),
             LitSeq(Chars("chapitre")) \o Plus(WhiteSpace) \o Plus(Digits),
             LitSeq(Chars("kapitel")) \o Plus(WhiteSpace) \o Plus(Digits)}]]

\* dict.get('size', 12.0)
GetSize(c) == IF "size" \in DOMAIN c THEN c.size ELSE RatOfInt(12)

\* ^[\d\s\-_\.]+$
numeric_or_symbolic_pattern == Plus(Digits \cup WhiteSpace \cup {"-", "_", "."}) \o End

_meets_minimum_quality(text) ==
    /\ ~(Len(text) < 3 \/ Len(text) > 200)
    /\ ~(UniqueChars(Lower(text)) < 3)
    /\ Split(text) # <<>>
    /\ ~ReMatch(numeric_or_symbolic_pattern, text)

\* the sum of the sizes of the candidates from index i on
RECURSIVE SumGetSize(_, _)
SumGetSize(cands, i) ==
    IF i > Len(cands) THEN RatOfInt(0)
    ELSE RatAdd(GetSize(cands[i]), SumGetSize(cands, i + 1))

\* more than 10 headings on the page: the candidate needs 0.8 of their
\* average size
_validates_in_context(candidate, all_candidates) ==
    LET same_page_headings ==
            SelectSeq(all_candidates, LAMBDA c : c.page = candidate.page)
        n == Len(same_page_headings)
        total == SumGetSize(same_page_headings, 1)
        size == GetSize(candidate)
    IN  ~(n > 10 /\ 10 * n * size.n * total.d < 8 * total.n * size.d)

\* abs(x - y) < 1.0 for rationals
RatWithinOne(x, y) == Abs(x.n * y.d - y.n * x.d) < x.d * y.d

_has_consistent_typography(candidate, all_candidates) ==
    LET size == GetSize(candidate)
        bold == GetBold(candidate)
        similar_headings ==
            SelectSeq(all_candidates, LAMBDA c : RatWithinOne(GetSize(c), size))
        n == Len(similar_headings)
        bolds == Cardinality({i \in 1..n : GetBold(similar_headings[i])})
    IN  IF n < 2 THEN TRUE
        ELSE /\ ~(bold /\ 10 * bolds < 3 * n)
             /\ ~(~bold /\ 10 * bolds > 7 * n)

non_heading_patterns ==
    {Lit("page") \o Plus(WhiteSpace) \o Plus(Digits),
     Lit("figure") \o Plus(WhiteSpace) \o Plus(Digits),
     Lit("table") \o Plus(WhiteSpace) \o Plus(Digits),
     Lit("see") \o Plus(WhiteSpace) \o Lit("page"),
     Lit("continued") \o Plus(WhiteSpace) \o Lit("on"),
     Lit("end") \o Plus(WhiteSpace) \o Lit("of"),
     Lit("total") \o Star(WhiteSpace) \o Lit(":"),
     Lit("sum") \o Star(WhiteSpace) \o Lit(":"),
     Lit("amount") \o Star(WhiteSpace) \o Lit(":")}

_validates_semantically(text) ==
    ~\E pattern \in non_heading_patterns : ReSearch(pattern, Lower(text))

_apply_precision_filters(cands) ==
    SelectSeq(cands, LAMBDA candidate :
        /\ _meets_minimum_quality(Strip(candidate.text))
        /\ _validates_in_context(candidate, cands)
        /\ _has_consistent_typography(candidate, cands)
        /\ _validates_semantically(Strip(candidate.text)))

\* keeps the first candidate of every text.strip().lower()
_deduplicate_candidates(cands) ==
    LET idx == SelectSeq([i \in 1..Len(cands) |-> i],
                   LAMBDA i : \A j \in 1..(i - 1) :
                       Lower(Strip(cands[j].text)) # Lower(Strip(cands[i].text)))
    IN  [k \in 1..Len(idx) |-> cands[idx[k]]]

\* the three recall techniques return no candidates
_apply_recall_enhancement(cands) == _deduplicate_candidates(cands)

\* the character ranges of _detect_text_language, as far as the alphabet of
\* the model has characters in them: U+3040-U+30FF and U+4E00-U+9FAF,
\* U+4E00-U+9FFF, U+AC00-U+D7AF, U+0600-U+06FF, and the accented letters
JapaneseChars == Ideographs
ChineseChars == Ideographs
KoreanChars == {}
ArabicChars == {}
EuropeanChars == Accented

_detect_text_language(text) ==
    IF \E i \in 1..Len(text) : text[i] \in JapaneseChars THEN "japanese"
    ELSE IF \E i \in 1..Len(text) : text[i] \in ChineseChars THEN "chinese"
    ELSE IF \E i \in 1..Len(text) : text[i] \in KoreanChars THEN "korean"
    ELSE IF \E i \in 1..Len(text) : text[i] \in ArabicChars THEN "arabic"
    ELSE IF \E i \in 1..Len(text) : Lower(text)[i] \in EuropeanChars THEN "european"
    ELSE "english"

\* the candidate with language and quality_boost (tenths) set
_enhance_with_language_patterns(candidate, language) ==
    LET text == candidate.text
        patterns == multilingual_patterns[language]
        has_section_keyword ==
            \E keyword \in patterns.section_keywords : Contains(text, keyword)
        has_numbering ==
            \E pattern \in patterns.numbering_patterns : ReSearch(pattern, text)
        quality_boost == (IF has_section_keyword THEN 2 ELSE 0)
                         + (IF has_numbering THEN 3 ELSE 0)
    IN  [language |-> language, quality_boost |-> quality_boost] @@ candidate

\* unicodedata.normalize('NFC', text) on the alphabet of the model: e followed
\* by the combining acute accent composes to U+00E9.  The texts of the model
\* have the accent after no other letter.
RECURSIVE NFC(_)
NFC(t) ==
    IF t = <<>> THEN <<>>
    ELSE IF Len(t) >= 2 /\ t[1] = "e" /\ t[2] = "U+0301"
         THEN NFC(<<"U+00E9">> \o SubSeq(t, 3, Len(t)))
    ELSE <<t[1]>> \o NFC(Tail(t))

_normalize_unicode_text(text) == Join(Split(NFC(text)))

\* the loop body of _apply_multilingual_enhancement
MultilingualStep(candidate) ==
    LET text == candidate.text
        detected_language == _detect_text_language(text)
        enhanced == IF detected_language \in DOMAIN multilingual_patterns
                    THEN _enhance_with_language_patterns(candidate, detected_language)
                    ELSE candidate
    IN  [text |-> _normalize_unicode_text(text)] @@ enhanced

_apply_multilingual_enhancement(cands) ==
    [i \in 1..Len(cands) |-> MultilingualStep(cands[i])]

numbered_dot_pattern == Plus(Digits) \o Lit(".") \o Plus(WhiteSpace)
numbered_sub_pattern == Plus(Digits) \o Lit(".") \o Plus(Digits) \o Plus(WhiteSpace)
lettered_pattern == One(Uppers) \o Lit(".") \o Plus(WhiteSpace)

section_patterns ==
    {Lit("introduction"), Lit("conclusion"), Lit("summary"), Lit("overview"),
     Lit("background"), Lit("methodology"), Lit("results"), Lit("discussion"),
     Lit("references"), Lit("appendix"),
     Lit("chapter") \o Plus(WhiteSpace) \o Plus(Digits),
     Lit("section") \o Plus(WhiteSpace) \o Plus(Digits)}

_score_structural_patterns(candidate) ==
    LET text == candidate.text
        numbering == IF ReMatch(numbered_dot_pattern, text) THEN 9
                     ELSE IF ReMatch(numbered_sub_pattern, text) THEN 8
                     ELSE IF ReMatch(lettered_pattern, text) THEN 7
                     ELSE 0
        section == IF \E pattern \in section_patterns : ReSearch(pattern, Lower(text))
                   THEN 6 ELSE 0
    IN  Min(10, numbering + section)

_score_semantic_content(candidate) ==
    LET text == candidate.text
        length == Len(text)
        word_count == Len(Split(text))
        lengthPts == IF 10 <= length /\ length <= 60 THEN 8
                     ELSE IF 5 <= length /\ length <= 100 THEN 6
                     ELSE 3
        wordPts == IF 2 <= word_count /\ word_count <= 8 THEN 7
                   ELSE IF 1 <= word_count /\ word_count <= 12 THEN 5
                   ELSE 0
        capPts == IF IsTitle(text) THEN 5
                  ELSE IF IsUpper(text) /\ length < 50 THEN 4
                  ELSE 0
    IN  Min(10, lengthPts + wordPts + capPts)

\* size / max_size against 0.9, 0.7 and 0.5; the list of sizes is never
\* empty, it holds the size of the candidate
_score_typography(candidate, all_candidates) ==
    LET size == GetSize(candidate)
        max_size == CHOOSE s \in {GetSize(all_candidates[i]) : i \in 1..Len(all_candidates)} :
                        \A i \in 1..Len(all_candidates) : ~RatGT(GetSize(all_candidates[i]), s)
        above(tenths) ==
            IF max_size.n > 0
            THEN 10 * size.n * max_size.d > tenths * max_size.n * size.d
            ELSE 5 > tenths
    IN  IF above(9) THEN 9 ELSE IF above(7) THEN 7 ELSE IF above(5) THEN 5 ELSE 3

_score_position(candidate) ==
    IF candidate.page <= 2 THEN 9
    ELSE IF candidate.page <= 5 THEN 7
    ELSE IF candidate.page <= 10 THEN 6
    ELSE 5

\* candidate.get('quality_boost', 0)
GetQualityBoost(c) == IF "quality_boost" \in DOMAIN c THEN c.quality_boost ELSE 0

\* the scores dict of _calculate_quality_score
ComponentScores(candidate, all_candidates) ==
    [structural |-> _score_structural_patterns(candidate),
     semantic |-> _score_semantic_content(candidate),
     typography |-> _score_typography(candidate, all_candidates),
     position |-> _score_position(candidate),
     multilingual |-> GetQualityBoost(candidate)]

\* component.split('_')[0]
ScoreKey(component) ==
    CASE component = "structural_pattern" -> "structural"
      [] component = "content_semantic" -> "content"
      [] component = "typography" -> "typography"
      [] component = "position" -> "position"
      [] component = "multilingual" -> "multilingual"

\* weight * scores.get(score_key, 0)
WeightedScore(scores, component) ==
    IF ScoreKey(component) \in DOMAIN scores
    THEN heading_quality_weights[component] * scores[ScoreKey(component)]
    ELSE 0

\* the component scores added without their weights and without the cap
QualityScoreUnweighted(candidate, all_candidates) ==
    LET scores == ComponentScores(candidate, all_candidates)
    IN  100 * (scores.structural + scores.semantic + scores.typography
               + scores.position + scores.multilingual)

_calculate_quality_score(candidate, all_candidates) ==
    LET scores == ComponentScores(candidate, all_candidates)
    IN  Min(1000, WeightedScore(scores, "structural_pattern")
                  + WeightedScore(scores, "content_semantic")
                  + WeightedScore(scores, "typography")
                  + WeightedScore(scores, "position")
                  + WeightedScore(scores, "multilingual"))

\* sorted_scores[-1] of the ascending scores
HighestScore(quality_scores) ==
    quality_scores[CHOOSE i \in 1..Len(quality_scores) :
                      \A j \in 1..Len(quality_scores) :
                          quality_scores[j] <= quality_scores[i]]

\* sorted_scores[len // 2] of the ascending scores
MedianScore(quality_scores) ==
    LET n == Len(quality_scores)
        pos(i) == 1 + Cardinality({j \in 1..n :
                        \/ quality_scores[j] < quality_scores[i]
                        \/ quality_scores[j] = quality_scores[i] /\ j < i})
    IN  quality_scores[CHOOSE i \in 1..n : pos(i) = (n \div 2) + 1]

\* max(0.3, min(0.8, median * 0.8)), in ten-thousandths; 0.5 without scores
_calculate_dynamic_threshold_from_scores(quality_scores) ==
    IF quality_scores = <<>> THEN 5000
    ELSE Max(3000, Min(8000, 8 * MedianScore(quality_scores)))

\* round(x, 3) of the rational n / d, in thousandths
Round3(n, d) ==
    LET q == (1000 * n) \div d
        r == (1000 * n) % d
    IN  IF 2 * r > d \/ (2 * r = d /\ q % 2 = 1) THEN q + 1 ELSE q

\* the metrics in thousandths.  precision = min(1, 0.8 + 0.2 * (1 - s / t));
\* recall = min(1, s / max(1, 0.7 * t)); f1 = 2pr / (p + r)
_calculate_accuracy_metrics(selected, all_candidates) ==
    LET total_candidates == Len(all_candidates)
        selected_count == Len(selected)
        t == Max(1, total_candidates)
        pn == IF selected_count > 0 THEN 5 * t - selected_count ELSE 0
        pd == 5 * t
        rn == IF 7 * total_candidates > 10 THEN 10 * selected_count ELSE selected_count
        rd == IF 7 * total_candidates > 10 THEN 7 * total_candidates ELSE 1
        rn1 == Min(rn, rd)
    IN  [precision_score |-> Round3(pn, pd),
         recall_score |-> Round3(rn1, rd),
         f1_score |-> IF pn * rd + rn1 * pd > 0
                      THEN Round3(2 * pn * rn1, pn * rd + rn1 * pd) ELSE 0,
         total_candidates |-> total_candidates,
         selected_count |-> selected_count]

\* quality_scores: the score of every candidate, in order
QualityScores(cands) ==
    [i \in 1..Len(cands) |-> _calculate_quality_score(cands[i], cands)]

\* the candidates in descending score order (a stable sort) that reach the
\* threshold.  The code adds the weighted scores as doubles; for the component
\* scores of headings without a size on pages up to 5 the doubles order, and
\* compare with the threshold, as the exact sums do.
SelectByScore(cands, quality_scores) ==
    LET n == Len(cands)
        pos(i) == 1 + Cardinality({j \in 1..n :
                        \/ quality_scores[j] > quality_scores[i]
                        \/ quality_scores[j] = quality_scores[i] /\ j < i})
        order == [k \in 1..n |-> CHOOSE i \in 1..n : pos(i) = k]
        threshold == _calculate_dynamic_threshold_from_scores(quality_scores)
        kept == SelectSeq(order, LAMBDA i : 10 * quality_scores[i] >= threshold)
    IN  [k \in 1..Len(kept) |-> cands[kept[k]]]

-----------------------------------------------------------------------------
(* Level determination on its own: build_hierarchy applied to a candidate  *)
(* list drawn from bounded sets.                                           *)

MaxContext == 3
MaxGenLen == 4

\* a heading candidate as _reconstruct_text_blocks makes it
Cand(text, page, size, bold, y) ==
    [text |-> text, size |-> RatOfInt(size), bold |-> bold, page |-> page,
     length |-> Len(text), bbox |-> <<72, y, 300, y + size>>]

\* texts that reach the numbering or the keyword rule
RuleTexts ==
    {Chars("1. Introduction"), Chars("1.1 Introduction"), Chars("1.1.1 Details"),
     Chars("A. Section"), Chars("I. Introduction"), Chars("IV. Scope"),
     Chars("Revision History"), Chars("Overview")}

\* texts that reach the position or the score rule
PlainTexts ==
    {Chars("Project Plan"), Chars("PROJECT PLAN"),
     Chars("project plans for next year"),
     Chars("Quarterly Budget Allocation Plan For Regional Offices Abroad")}

\* every short text over a small alphabet, to exercise the numbering patterns
GenAlphabet == {"1", ".", " ", "A", "I", "a"}
GenTexts == SeqsUpTo(GenAlphabet, MaxGenLen) \ {<<>>}

LevelPool ==
    {Cand(t, p, 12, FALSE, 100) : t \in RuleTexts, p \in {1, 4}}
    \cup {Cand(t, p[1], p[2], b, 100) :
            t \in PlainTexts, p \in {2, 3, 4} \X {12, 18}, b \in BOOLEAN}

ContextPool ==
    {Cand(Chars("Fee Schedule"), 5, 14, FALSE, 200),
     Cand(Chars("Fee Table"), 5, 16, FALSE, 300),
     Cand(Chars("Fee Notes"), 1, 18, TRUE, 50)}

LevelInputs ==
    {<<c>> \o ctx : c \in LevelPool, ctx \in SeqsUpTo(ContextPool, MaxContext)}
    \cup {<<Cand(t, 1, 12, FALSE, 100)>> : t \in GenTexts}
    \cup {<<>>}

\* the model output when no model is loaded
NoPredictions == [aligned |-> FALSE, prediction_id |-> 0, confidence |-> 0]

\* the fields of a LayoutLMv3Enhancer after __init__: 0 stands for None, a
\* positive number for the object the worker of that number loaded
NewEnhancer == [processor |-> 0, model |-> 0, initialized |-> FALSE]

\* the variables of a batch, when no batch runs
NoBatch ==
    /\ input_paths = <<>>
    /\ work_queue = <<>>
    /\ futures = <<>>
    /\ workers = <<>>
    /\ output_dir = <<>>
    /\ enhancer = NewEnhancer
    /\ calls = <<>>

\* the variables of the document run, at rest
NoRun ==
    /\ doc = <<>>
    /\ opts = [accuracy |-> FALSE, monitoring |-> FALSE, multimodal |-> "absent"]
    /\ predictions = NoPredictions
    /\ title = <<>>
    /\ outline = <<>>
    /\ accuracy_metrics = <<>>
    /\ result = "none"
    /\ cluster_labels = <<>>
    /\ candidate_scores = <<>> /\ dynamic_threshold = 0
    /\ exception_in = "none"
    /\ NoBatch

NoProfile ==
    [structure |-> [is_form |-> FALSE, is_academic |-> FALSE, is_technical |-> FALSE]]

InitLevel ==
    /\ pc = "level"
    /\ candidates \in LevelInputs
    /\ NoRun
    /\ profile = NoProfile
    /\ lines_info = <<>> /\ page_num = 0 /\ groups = <<>> /\ fragments = <<>>
    /\ filtered = <<>> /\ headings = <<>>

\* LevelDeterminer.build_hierarchy(candidates): sorts the list it is given in
\* place and returns the headings
BuildHierarchy ==
    /\ pc = "level"
    /\ candidates' = SortCandidates(candidates)
    /\ headings' = build_hierarchy(candidates)
    /\ pc' = "level_done"
    /\ UNCHANGED <<doc, opts, predictions, profile, title, lines_info, page_num, groups,
                   fragments, filtered, outline, accuracy_metrics, result, cluster_labels,
                   candidate_scores, dynamic_threshold, exception_in, batch_vars>>

NextLevel == BuildHierarchy

SpecLevel == InitLevel /\ [][NextLevel]_vars

Levels == {"H1", "H2", "H3", "TITLE"}

\* C1: the level of every heading is the numbering level when the numbering
\* rule gives one, else the keyword level when that rule gives one, else the
\* position level when that rule gives one, else the score level; a later
\* rule never replaces the level of an earlier one.
C1_PriorityChain ==
    pc = "level_done" =>
        \A i \in 1..Len(headings) :
            LET c == candidates[i]
                s == _get_structural_level(c.text)
                k == _get_content_based_level(c.text)
                p == _get_position_based_level(c)
                lv == headings[i].level
            IN  /\ s # "" => lv = s
                /\ (s = "" /\ k # "") => lv = k
                /\ (s = "" /\ k = "" /\ p # "") => lv = p
                /\ (s = "" /\ k = "" /\ p = "") =>
                       lv = _get_score_based_level(c, candidates)

\* "1.1 Introduction" on page 1 came out as H2 although the keyword rule and
\* the position rule both say H1
C1_Witness ==
    /\ pc = "level_done"
    /\ \E i \in 1..Len(headings) :
          /\ headings[i].text = Chars("1.1 Introduction")
          /\ headings[i].page = 0
          /\ headings[i].level = "H2"
          /\ _get_content_based_level(candidates[i].text) = "H1"
          /\ _get_position_based_level(candidates[i]) = "H1"

RomanPrefix == Plus({"I", "V", "X"}) \o Lit(".") \o Plus(WhiteSpace) \o One(Uppers)

\* C2: every heading whose text starts with a roman-numeral prefix
\* ^[IVX]+\.\s+[A-Z] has level H1 (the numbering rule decides its level).
C2_RomanIsH1 ==
    pc = "level_done" =>
        \A i \in 1..Len(headings) :
            ReMatch(RomanPrefix, headings[i].text) =>
                /\ _get_structural_level(headings[i].text) = "H1"
                /\ headings[i].level = "H1"


-----------------------------------------------------------------------------
(* Fragment reconstruction on its own: one page's sorted lines drawn from  *)
(* bounded sets.                                                           *)

MaxLines == 3

ReconTexts == {Chars("Note"), Chars("Part  One")}
ReconSizes == {20, 22, 24, 27}
ReconGaps == {20, 30, 40}

\* what a line may be: its text, bold state, size and gap to the line above
LineKinds ==
    (ReconTexts \X BOOLEAN \X {20, 22} \X {20})
    \cup ({Chars("Part  One")} \X {FALSE} \X ReconSizes \X ReconGaps)

\* a line record of lines_info
Line(text, size, bold, y) ==
    [text |-> text, size |-> size, bold |-> bold, bbox |-> <<72, y, 300, y + size>>,
     y_pos |-> y]

RECURSIVE YOf(_, _)
YOf(kinds, i) == IF i = 1 THEN 100 ELSE YOf(kinds, i - 1) + kinds[i][4]

LinesOf(kinds) ==
    [i \in 1..Len(kinds) |-> Line(kinds[i][1], kinds[i][3], kinds[i][2], YOf(kinds, i))]

PageInputs == {LinesOf(ks) : ks \in SeqsUpTo(LineKinds, MaxLines) \ {<<>>}}

InitRecon ==
    /\ pc = "recon"
    /\ lines_info \in PageInputs
    /\ page_num \in {0, 1}
    /\ NoRun
    /\ profile = NoProfile
    /\ groups = <<>> /\ fragments = <<>> /\ candidates = <<>>
    /\ filtered = <<>> /\ headings = <<>>

\* HeadingExtractor._reconstruct_text_blocks(lines_info, page_num)
ReconstructTextBlocks ==
    /\ pc = "recon"
    /\ LET r == _reconstruct_text_blocks(lines_info, page_num, ConfigOf(opts.monitoring))
       IN  /\ fragments' = r.texts
           /\ groups' = r.groups
    /\ pc' = "recon_done"
    /\ UNCHANGED <<doc, opts, predictions, profile, title, lines_info, page_num, candidates,
                   filtered, headings, outline, accuracy_metrics, result, cluster_labels,
                   candidate_scores, dynamic_threshold, exception_in, batch_vars>>

NextRecon == ReconstructTextBlocks

SpecRecon == InitRecon /\ [][NextRecon]_vars


\* lines i and j of the page ended in the same group
SameGroup(i, j) ==
    \E g \in 1..Len(groups) : i \in Range(groups[g]) /\ j \in Range(groups[g])

\* the merge conditions as the claim states them, for a line and the one above
MergeConditions(above, line) ==
    LET cfg == ConfigOf(opts.monitoring)
        relaxed == /\ above.size > cfg.extraction.font_thresholds.title_font_threshold
                   /\ line.size > cfg.extraction.font_thresholds.title_font_threshold
        tolerance == IF relaxed
                     THEN cfg.extraction.distance_thresholds.large_font_tolerance
                     ELSE cfg.extraction.distance_thresholds.font_size_tolerance
        distance == IF relaxed
                    THEN cfg.extraction.distance_thresholds.large_font_distance
                    ELSE cfg.extraction.distance_thresholds.grouping_distance
    IN  /\ Abs(line.size - above.size) < tolerance
        /\ line.y_pos - above.y_pos < distance
        /\ line.bold = above.bold

\* C9: a line joins the group of the line just above it exactly when the
\* font-size delta is below the tolerance, the vertical gap below the grouping
\* distance and the bold state the same, the relaxed pair of thresholds
\* applying exactly when both sizes exceed title_font_threshold; otherwise the
\* line starts a new group.
C9_MergeIff ==
    pc = "recon_done" =>
        \A i \in 2..Len(lines_info) :
            /\ SameGroup(i - 1, i) <=> MergeConditions(lines_info[i - 1], lines_info[i])
            /\ ~MergeConditions(lines_info[i - 1], lines_info[i]) =>
                   \E g \in 1..Len(groups) : groups[g][1] = i

\* three lines merged into one fragment, under the relaxed thresholds: the
\* sizes differ by 2 and the lines are 30 apart
C9_Witness ==
    /\ pc = "recon_done"
    /\ groups = << <<1, 2, 3>> >>
    /\ Len(fragments) = 1
    /\ lines_info[2].size - lines_info[1].size = 2
    /\ lines_info[3].y_pos - lines_info[2].y_pos = 30


\* the words of the lines of a group, joined by single spaces
WordsText(group) ==
    Join(Flatten([k \in 1..Len(group) |-> Split(lines_info[group[k]].text)]))

\* no leading, trailing or doubled white space, and no white space but " "
IsNormalized(t) ==
    /\ t # <<>> => (t[1] \notin WhiteSpace /\ t[Len(t)] \notin WhiteSpace)
    /\ \A i \in 1..Len(t) : t[i] \in WhiteSpace => t[i] = " "
    /\ \A i \in 1..(Len(t) - 1) : ~(t[i] \in WhiteSpace /\ t[i + 1] \in WhiteSpace)

\* C10: the groups partition the page's sorted lines into consecutive runs;
\* the fragments are, top to bottom, those of the groups whose joined text is
\* longer than 5 characters; each carries the whitespace-normalized join of
\* its group's line texts and the page of its lines; only groups whose joined
\* text has 5 characters or fewer give no fragment.
C10_Partition ==
    pc = "recon_done" =>
        LET Long(g) == Len(WordsText(g)) > 5
            kept == SelectSeq(groups, Long)
        IN  /\ Flatten(groups) = [i \in 1..Len(lines_info) |-> i]
            /\ \A g \in 1..Len(groups) : groups[g] # <<>>
            /\ Len(fragments) = Len(kept)
            /\ \A k \in 1..Len(fragments) :
                  /\ fragments[k].text = WordsText(kept[k])
                  /\ IsNormalized(fragments[k].text)
                  /\ Len(fragments[k].text) > 5
                  /\ fragments[k].page = page_num + 1
                  /\ fragments[k].bbox = lines_info[kept[k][1]].bbox
            /\ \A k \in 1..(Len(fragments) - 1) :
                  fragments[k].bbox[2] <= fragments[k + 1].bbox[2]

\* a page of three lines in two groups: a group of one short line gives no
\* fragment, the other gives a fragment whose text was normalized
C10_Witness ==
    /\ pc = "recon_done"
    /\ Len(lines_info) = 3
    /\ Len(groups) = 2
    /\ Len(fragments) = 1
    /\ \E g \in 1..2 : Len(groups[g]) = 1 /\ Len(WordsText(groups[g])) <= 5
    /\ \E g \in 1..2 :
          /\ Len(groups[g]) = 2
          /\ fragments[1].text = WordsText(groups[g])
          /\ fragments[1].text # ReconstructTextRaw(GroupLines(lines_info, groups[g]))

-----------------------------------------------------------------------------
(* Candidate filtering on its own: filter_candidates applied to a          *)
(* candidate list and a document profile drawn from bounded sets, then     *)
(* applied once more, to its own output or to the same list.               *)

MaxCands == 3

\* texts for the form rules: a colon, an avoid-field label, both
FormTexts ==
    {Chars("Project Overview"), Chars("Contact: Details"), Chars("Employee Records"),
     Chars("Name:")}

\* texts for the duplicate rules: equal after strip, equal word sets, and
\* word sets overlapping by 5/6 and by 4/5
DuplicateTexts ==
    {Chars("Oak Elm Ash Fir Yew"), Chars(" Oak Elm Ash Fir Yew"),
     Chars("Oak Elm Ash Fir Yew Bay"), Chars("Oak Elm Ash Fir"),
     Chars("oak elm ash fir")}

\* candidate i of the list stands on page i
CandsOf(texts) == [i \in 1..Len(texts) |-> Cand(texts[i], i, 14, FALSE, 100)]

Profiles ==
    {[structure |-> [is_form |-> f, is_academic |-> a, is_technical |-> t]] :
        f \in BOOLEAN, a \in BOOLEAN, t \in BOOLEAN}

\* the form texts in every order, each at most once
FormInputs ==
    {CandsOf(ts) : ts \in {s \in SeqsUpTo(FormTexts, Cardinality(FormTexts)) :
                              \A i, j \in 1..Len(s) : s[i] = s[j] => i = j}}

DuplicateInputs == {CandsOf(ts) : ts \in SeqsUpTo(DuplicateTexts, MaxCands)}

InitFilter ==
    /\ pc = "filter"
    /\ \/ candidates \in FormInputs /\ profile \in Profiles
       \/ candidates \in DuplicateInputs /\ profile = NoProfile
    /\ NoRun
    /\ lines_info = <<>> /\ page_num = 0 /\ groups = <<>> /\ fragments = <<>>
    /\ filtered = <<>> /\ headings = <<>>

\* HeadingFilter.filter_candidates(candidates, doc_profile); a KeyError
\* leaves no result
FilterCandidates ==
    /\ pc = "filter"
    /\ LET r == filter_candidates(candidates, profile, ConfigOf(opts.monitoring))
       IN  /\ filtered' = r.kept
           /\ pc' = IF r.raised THEN "filter_raised" ELSE "filtered"
    /\ UNCHANGED <<doc, opts, predictions, profile, title, lines_info, page_num, groups, fragments,
                   candidates, headings, outline, accuracy_metrics, result, cluster_labels,
                   candidate_scores, dynamic_threshold, exception_in, batch_vars>>

\* the same filter object is given its own output
FilterOutput ==
    /\ pc = "filtered"
    /\ candidates' = filtered
    /\ LET r == filter_candidates(filtered, profile, ConfigOf(opts.monitoring))
       IN  /\ filtered' = r.kept
           /\ pc' = IF r.raised THEN "filter_raised" ELSE "refiltered"
    /\ UNCHANGED <<doc, opts, predictions, profile, title, lines_info, page_num, groups, fragments,
                   headings, outline, accuracy_metrics, result, cluster_labels,
                   candidate_scores, dynamic_threshold, exception_in, batch_vars>>

\* the same filter object is given the same list a second time
FilterSame ==
    /\ pc = "filtered"
    /\ LET r == filter_candidates(candidates, profile, ConfigOf(opts.monitoring))
       IN  /\ filtered' = r.kept
           /\ pc' = IF r.raised THEN "filter_raised" ELSE "filtered_twice"
    /\ UNCHANGED <<doc, opts, predictions, profile, title, lines_info, page_num, groups, fragments,
                   candidates, headings, outline, accuracy_metrics, result, cluster_labels,
                   candidate_scores, dynamic_threshold, exception_in, batch_vars>>

NextFilter == FilterCandidates \/ FilterOutput \/ FilterSame

SpecFilter == InitFilter /\ [][NextFilter]_vars

\* C6: filtering is idempotent and carries no state between calls: the
\* filter applied to its own output returns that output, and applied a second
\* time to the same list returns the same result
C6_Idempotent ==
    [][/\ pc' = "refiltered" => filtered' = filtered
       /\ pc' = "filtered_twice" => filtered' = filtered
       /\ (pc = "filtered" /\ pc' # pc) => pc' \in {"refiltered", "filtered_twice"}]_vars

\* a list of which the first pass dropped some and kept some has been given
\* to the filter again
C6_Witness ==
    /\ pc = "refiltered"
    /\ Len(filtered) >= 2
    /\ filtered = candidates

RECURSIVE IsSubsequence(_, _)
IsSubsequence(a, b) ==
    IF a = <<>> THEN TRUE
    ELSE IF b = <<>> THEN FALSE
    ELSE IF Head(a) = Head(b) THEN IsSubsequence(Tail(a), Tail(b))
    ELSE IsSubsequence(a, Tail(b))

\* C7: the filter's result is a subsequence of its input, no two survivors
\* have the same stripped text, and the word sets of a survivor and of any
\* survivor before it overlap (Jaccard) by at most 0.8
C7_Survivors ==
    pc = "filtered" =>
        /\ IsSubsequence(filtered, candidates)
        /\ \A i, j \in 1..Len(filtered) :
              i < j =>
                 /\ Strip(filtered[i].text) # Strip(filtered[j].text)
                 /\ 5 * Cardinality(WordSet(filtered[i].text) \cap WordSet(filtered[j].text))
                      <= 4 * Cardinality(WordSet(filtered[i].text) \cup WordSet(filtered[j].text))

\* a near-duplicate (overlap 5/6) was dropped while a text overlapping by
\* exactly 4/5 was kept
C7_Witness ==
    /\ pc = "filtered"
    /\ Len(candidates) = 3
    /\ candidates[1].text = Chars("Oak Elm Ash Fir Yew")
    /\ candidates[2].text = Chars("Oak Elm Ash Fir Yew Bay")
    /\ candidates[3].text = Chars("Oak Elm Ash Fir")
    /\ filtered = <<candidates[1], candidates[3]>>

\* C8: under a form profile, whatever its other flags, no kept candidate
\* contains a colon or a configured avoid-field label; "Name:" is dropped
C8_FormDrops ==
    (pc = "filtered" /\ profile.structure.is_form) =>
        \A i \in 1..Len(filtered) :
            /\ ~Contains(filtered[i].text, <<":">>)
            /\ ~ \E field \in ConfigOf(opts.monitoring).document_types.form.avoid_fields :
                    Contains(Lower(filtered[i].text), field)
            /\ Strip(filtered[i].text) # Chars("Name:")

\* a form profile that is also academic and technical met a colon text and
\* an avoid-field text, dropped both and kept another candidate
C8_Witness ==
    /\ pc = "filtered"
    /\ profile.structure.is_form /\ profile.structure.is_academic
    /\ profile.structure.is_technical
    /\ \E i \in 1..Len(candidates) : candidates[i].text = Chars("Contact: Details")
    /\ \E i \in 1..Len(candidates) : candidates[i].text = Chars("Employee Records")
    /\ Len(filtered) = 1

-----------------------------------------------------------------------------
(* ModularPDFExtractor.extract_structure on one document                   *)
(* pc names the statement of extract_structure that runs next.             *)

MaxPages == 2

\* a report page: a heading line and a numbered section line
ReportPage ==
    <<Span(Chars("Project Overview"), 16, TRUE, 100),
      Span(Chars("1. Introduction"), 14, TRUE, 200)>>

\* a page of headings in other scripts: e with a combining accent, and CJK
AccentPage ==
    <<Span(Chars("Cafe") \o <<"U+0301">> \o Chars(" Menu Today"), 14, TRUE, 100),
      Span(<<"U+7B2C", "1", "U+7AE0", " ", "U+6982", "U+8981">> \o Chars(" abcd"),
           12, TRUE, 200)>>

\* a form page: two lines close enough to be one fragment
FormPage ==
    <<Span(Chars("Application Form for Research Grants"), 12, FALSE, 100),
      Span(Chars("Name: Applicant"), 12, FALSE, 115)>>

\* a page of a technical manual
ManualPage == <<Span(Chars("Technical Manual Overview"), 16, TRUE, 100)>>

\* a page without text
BlankPage == <<>>

PageCatalogue == {ReportPage, AccentPage, FormPage, ManualPage, BlankPage}

Documents == SeqsUpTo(PageCatalogue, MaxPages)

\* what the model may predict when it is loaded
PredictionOutcomes ==
    {[aligned |-> TRUE, prediction_id |-> 3, confidence |-> 65],
     [aligned |-> TRUE, prediction_id |-> 7, confidence |-> 45],
     [aligned |-> FALSE, prediction_id |-> 3, confidence |-> 65]}

\* the constructor arguments, and for the LayoutLMv3 enhancer whether it is
\* absent (the import failed, or accuracy enhancement is off), present
\* without a loadable model, or ready
Options ==
    {[accuracy |-> a, monitoring |-> m, multimodal |-> "absent"] : a, m \in BOOLEAN}
    \cup {[accuracy |-> TRUE, monitoring |-> FALSE, multimodal |-> mm] :
            mm \in {"no_model", "ready"}}

Init ==
    /\ pc = "open_document"
    /\ doc \in Documents
    /\ opts \in Options
    /\ predictions \in (IF opts.multimodal = "ready" THEN PredictionOutcomes
                        ELSE {NoPredictions})
    /\ profile = NoProfile
    /\ title = <<>>
    /\ lines_info = <<>> /\ page_num = 0 /\ groups = <<>> /\ fragments = <<>>
    /\ candidates = <<>> /\ filtered = <<>> /\ headings = <<>>
    /\ outline = <<>>
    /\ accuracy_metrics = <<>>
    /\ result = "none"
    /\ cluster_labels = <<>>
    /\ candidate_scores = <<>> /\ dynamic_threshold = 0
    /\ exception_in = "none"
    /\ NoBatch

\* the config argument of the constructor, <<>> when none was given
CustomConfig == IF "custom_config" \in DOMAIN opts THEN opts.custom_config ELSE <<>>

\* self.config of the extractor
Config == ConfigFor(CustomConfig, opts.monitoring)

\* self.layoutlmv3_enhancer is set
HasLayoutLM == opts.multimodal # "absent"

\* an except clause that keeps the title extracted so far
ReturnPartial(stage) ==
    /\ pc' = "done"
    /\ outline' = <<>>
    /\ result' = [title |-> title, outline |-> <<>>]
    /\ exception_in' = stage

\* the except clause of extract_structure, entered from the given stage
ReturnEmpty(stage) ==
    /\ pc' = "done"
    /\ outline' = <<>>
    /\ result' = [title |-> <<>>, outline |-> <<>>]
    /\ exception_in' = stage

\* fitz.open(pdf_path), which raises for a file that cannot be read
OpenDocument ==
    /\ pc = "open_document"
    /\ \E readable \in BOOLEAN :
          IF readable
          THEN pc' = "analyze_document" /\ UNCHANGED <<outline, result, exception_in>>
          ELSE ReturnEmpty("open_document")
    /\ UNCHANGED <<doc, opts, predictions, profile, title, lines_info, page_num, groups,
                   fragments, candidates, filtered, headings, accuracy_metrics,
                   cluster_labels, candidate_scores, dynamic_threshold, batch_vars>>

AnalyzeDocument ==
    /\ pc = "analyze_document"
    /\ profile' = analyze_document(doc, Config)
    /\ pc' = IF HasLayoutLM THEN "enhance_document_analysis" ELSE "extract_title"
    /\ UNCHANGED <<doc, opts, predictions, title, lines_info, page_num, groups, fragments,
                   candidates, filtered, headings, outline, accuracy_metrics, result, cluster_labels,
                   candidate_scores, dynamic_threshold, exception_in, batch_vars>>

EnhanceDocumentAnalysis ==
    /\ pc = "enhance_document_analysis"
    /\ profile' = enhance_document_analysis(doc, profile, opts.multimodal, predictions)
    /\ pc' = "extract_title"
    /\ UNCHANGED <<doc, opts, predictions, title, lines_info, page_num, groups, fragments,
                   candidates, filtered, headings, outline, accuracy_metrics, result, cluster_labels,
                   candidate_scores, dynamic_threshold, exception_in, batch_vars>>

\* doc[0] raises IndexError for a document without pages
ExtractTitle ==
    /\ pc = "extract_title"
    /\ IF Len(doc) = 0
       THEN ReturnEmpty("extract_title") /\ UNCHANGED title
       ELSE /\ title' = extract_title(doc, profile, Config)
            /\ pc' = "get_heading_candidates"
            /\ UNCHANGED <<outline, result, exception_in>>
    /\ UNCHANGED <<doc, opts, predictions, profile, lines_info, page_num, groups, fragments,
                   candidates, filtered, headings, accuracy_metrics, cluster_labels,
                   candidate_scores, dynamic_threshold, batch_vars>>

\* HeadingExtractor._get_ml_heading_candidates(doc)
GetHeadingCandidates ==
    /\ pc = "get_heading_candidates"
    /\ \E all_texts \in {AllTexts(doc, Config)} :
       \E outcome \in ClusterOutcomes(all_texts, Config) :
          /\ fragments' = all_texts
          /\ cluster_labels' = outcome.clusters
          /\ candidates' = outcome.candidates
    /\ pc' = "apply_filtering"
    /\ UNCHANGED <<doc, opts, predictions, profile, title, lines_info, page_num, groups,
                   filtered, headings, outline, accuracy_metrics, result,
                   candidate_scores, dynamic_threshold, exception_in, batch_vars>>

\* HeadingExtractor._apply_filtering(candidates, doc_profile)
ApplyFiltering ==
    /\ pc = "apply_filtering"
    /\ LET r == filter_candidates(candidates, profile, Config)
       IN  IF r.raised
           THEN ReturnEmpty("extract_headings") /\ UNCHANGED filtered
           ELSE /\ filtered' = r.kept
                /\ pc' = "build_hierarchy"
                /\ UNCHANGED <<outline, result, exception_in>>
    /\ UNCHANGED <<doc, opts, predictions, profile, title, lines_info, page_num, groups,
                   fragments, candidates, headings, accuracy_metrics, cluster_labels,
                   candidate_scores, dynamic_threshold, batch_vars>>

\* HeadingExtractor._build_heading_hierarchy(filtered_candidates), which
\* sorts the filtered list in place
BuildHeadingHierarchy ==
    /\ pc = "build_hierarchy"
    /\ filtered' = SortCandidates(filtered)
    /\ headings' = build_hierarchy(filtered)
    /\ pc' = IF HasLayoutLM THEN "enhance_heading_detection"
             ELSE IF opts.accuracy THEN "enhance_accuracy"
             ELSE "return"
    /\ UNCHANGED <<doc, opts, predictions, profile, title, lines_info, page_num, groups,
                   fragments, candidates, outline, accuracy_metrics, result, cluster_labels,
                   candidate_scores, dynamic_threshold, exception_in, batch_vars>>

\* layoutlmv3_enhancer.enhance_heading_detection(raw_headings, doc, doc_profile),
\* whose own except clause returns the headings it was given
EnhanceHeadingDetection ==
    /\ pc = "enhance_heading_detection"
    /\ headings' = MultimodalHeadingDetection(headings, doc, opts.multimodal, predictions)
    /\ exception_in' = IF HeadingEnhancementRaises(headings, doc, opts.multimodal)
                       THEN "enhance_heading_detection" ELSE exception_in
    /\ pc' = IF opts.accuracy THEN "enhance_accuracy" ELSE "return"
    /\ UNCHANGED <<doc, opts, predictions, profile, title, lines_info, page_num, groups,
                   fragments, candidates, filtered, outline, accuracy_metrics, result,
                   cluster_labels, candidate_scores, dynamic_threshold, batch_vars>>

\* accuracy_enhancer.enhance_heading_detection(raw_headings, doc_profile):
\* the precision filters, the recall pass, the multilingual pass and the
\* quality scoring (_apply_quality_scoring), each on the result of the pass
\* before it
EnhanceAccuracy ==
    /\ pc = "enhance_accuracy"
    /\ \E high_precision_candidates \in {_apply_precision_filters(headings)} :
       \E enhanced_candidates \in {_apply_recall_enhancement(high_precision_candidates)} :
       \E multilingual_enhanced \in {_apply_multilingual_enhancement(enhanced_candidates)} :
       \E quality_scores \in {QualityScores(multilingual_enhanced)} :
       \E final_candidates \in {SelectByScore(multilingual_enhanced, quality_scores)} :
          /\ candidate_scores' = quality_scores
          /\ dynamic_threshold' = _calculate_dynamic_threshold_from_scores(quality_scores)
          /\ headings' = final_candidates
          /\ accuracy_metrics' =
                 _calculate_accuracy_metrics(final_candidates, multilingual_enhanced)
    /\ pc' = "return"
    /\ UNCHANGED <<doc, opts, predictions, profile, title, lines_info, page_num, groups,
                   fragments, candidates, filtered, outline, result, cluster_labels, exception_in, batch_vars>>

\* the result dict, with _accuracy_metrics when the metrics are not empty
ReturnResult ==
    /\ pc = "return"
    /\ outline' = headings
    /\ result' = IF DOMAIN accuracy_metrics # {}
                 THEN [title |-> title, outline |-> headings,
                       _accuracy_metrics |-> accuracy_metrics]
                 ELSE [title |-> title, outline |-> headings]
    /\ pc' = "done"
    /\ UNCHANGED <<doc, opts, predictions, profile, title, lines_info, page_num, groups,
                   fragments, candidates, filtered, headings, accuracy_metrics, cluster_labels,
                   candidate_scores, dynamic_threshold, exception_in, batch_vars>>

Next ==
    \/ OpenDocument
    \/ AnalyzeDocument
    \/ EnhanceDocumentAnalysis
    \/ ExtractTitle
    \/ GetHeadingCandidates
    \/ ApplyFiltering
    \/ BuildHeadingHierarchy
    \/ EnhanceHeadingDetection
    \/ EnhanceAccuracy
    \/ ReturnResult

Spec == Init /\ [][Next]_vars

\* the vertical positions a heading of the outline can have come from: those
\* of the candidates of its page with its text (as it was, or normalized)
PositionsOf(h) ==
    {filtered[i].bbox[2] : i \in {k \in 1..Len(filtered) :
        /\ filtered[k].page - 1 = h.page
        /\ \/ filtered[k].text = h.text
           \/ _normalize_unicode_text(filtered[k].text) = h.text}}

\* C3: the outline extract_structure returns lists its headings in
\* non-decreasing (page, vertical position) order, with accuracy enhancement
\* enabled or disabled.
C3_OutlineInPageOrder ==
    pc = "done" =>
        \A i, j \in 1..Len(outline) :
            i < j =>
                \/ outline[i].page < outline[j].page
                \/ /\ outline[i].page = outline[j].page
                   /\ \E yi \in PositionsOf(outline[i]) :
                      \E yj \in PositionsOf(outline[j]) : yi <= yj

\* the number of times x occurs in the sequence s
Occurrences(s, x) == Cardinality({i \in 1..Len(s) : s[i] = x})

\* h is the heading of candidate c: its text, a level, and as page the
\* 0-based index of a page of d that holds the words of the text
HeadingOfCandidate(h, c, d) ==
    /\ DOMAIN h = {"level", "text", "page"}
    /\ h.level \in Levels
    /\ h.text = c.text
    /\ h.page = c.page - 1
    /\ h.page >= 0 /\ h.page < Len(d)
    /\ \A w \in Range(Split(h.text)) : w \in Range(PageWords(d[h.page + 1]))

\* C4: build_hierarchy emits exactly one heading per candidate it is given,
\* each with a level among H1, H2, H3, TITLE and with the candidate's 1-based
\* page minus 1 as page, which is the 0-based index of the document page the
\* fragment was read from.
C4_OneHeadingPerCandidate ==
    [][(pc = "build_hierarchy" /\ pc' # pc) =>
          /\ Len(headings') = Len(filtered)
          /\ \A i \in 1..Len(filtered) :
                Occurrences(filtered', filtered[i]) = Occurrences(filtered, filtered[i])
          /\ \A i \in 1..Len(headings') :
                HeadingOfCandidate(headings'[i], filtered'[i], doc)]_vars

\* build_hierarchy has just emitted four headings, two of the first and two
\* of the second page of a document
C4_Witness ==
    /\ pc = "return" /\ ~opts.accuracy
    /\ Len(doc) = 2
    /\ Len(filtered) = 4 /\ Len(headings) = 4
    /\ headings[1].page = 0 /\ headings[2].page = 0
    /\ headings[3].page = 1 /\ headings[4].page = 1

\* C5: every heading that survives AccuracyEnhancer.enhance_heading_detection
\* is one of the headings it was given, with the same text and the same
\* fields.
C5_HeadingsImmutable ==
    [][(pc = "enhance_accuracy" /\ pc' # pc) =>
          \A k \in 1..Len(headings') :
              \E i \in 1..Len(headings) : headings'[k] = headings[i]]_vars

-----------------------------------------------------------------------------
(* Clustering on its own: HeadingExtractor._get_ml_heading_candidates from *)
(* the test on len(all_texts) on, over lists of reconstructed fragments    *)

MaxFragments == 6

\* a fragment that looks like a heading and one that looks like body text
HeadingFragment(page, y) == Cand(Chars("1. Introduction"), page, 14, TRUE, y)
BodyFragment(page, y) ==
    Cand(Chars("the quick brown fox jumps over the lazy dog"), page, 10, FALSE, y)

\* the i-th fragment of a document that has three fragments on every page
FragmentAt(kind, i) ==
    LET page == 1 + (i - 1) \div 3
        y == 100 + 50 * ((i - 1) % 3)
    IN  IF kind = "heading" THEN HeadingFragment(page, y) ELSE BodyFragment(page, y)

FragmentLists ==
    {[i \in 1..Len(kinds) |-> FragmentAt(kinds[i], i)] :
        kinds \in {ks \in SeqsUpTo({"heading", "body"}, MaxFragments) : Len(ks) >= 4}}

InitCluster ==
    /\ pc = "cluster"
    /\ fragments \in FragmentLists
    /\ doc = <<>>
    /\ opts \in {[accuracy |-> FALSE, monitoring |-> m, multimodal |-> "absent"] :
                    m \in BOOLEAN}
    /\ predictions = NoPredictions
    /\ profile = NoProfile
    /\ title = <<>> /\ outline = <<>> /\ accuracy_metrics = <<>> /\ result = "none"
    /\ lines_info = <<>> /\ page_num = 0 /\ groups = <<>>
    /\ candidates = <<>> /\ filtered = <<>> /\ headings = <<>>
    /\ cluster_labels = <<>>
    /\ candidate_scores = <<>> /\ dynamic_threshold = 0
    /\ exception_in = "none"
    /\ NoBatch

\* lines 81-85 of _get_ml_heading_candidates and _cluster_headings behind them
ClusterHeadings ==
    /\ pc = "cluster"
    /\ \E outcome \in ClusterOutcomes(fragments, Config) :
          /\ cluster_labels' = outcome.clusters
          /\ candidates' = outcome.candidates
    /\ pc' = "cluster_done"
    /\ UNCHANGED <<doc, opts, predictions, profile, title, lines_info, page_num, groups,
                   fragments, filtered, headings, outline, accuracy_metrics, result,
                   candidate_scores, dynamic_threshold, exception_in, batch_vars>>

NextCluster == ClusterHeadings

SpecCluster == InitCluster /\ [][NextCluster]_vars

\* C11: with fewer than 5 fragments, or with
\* k = min(max_clusters, fragment_count div cluster_ratio) below min_clusters,
\* KMeans is not called and the candidates are the fragments, unchanged and in
\* order; in every other case KMeans is called and labels every fragment with
\* one of k clusters.
C11_ClusteringSkipped ==
    pc = "cluster_done" =>
        LET n == Len(fragments)
            clustering == Config.extraction.clustering
            by_ratio == n \div clustering.cluster_ratio
            k == IF clustering.max_clusters < by_ratio
                 THEN clustering.max_clusters ELSE by_ratio
        IN  IF n < 5 \/ k < clustering.min_clusters
            THEN cluster_labels = <<>> /\ candidates = fragments
            ELSE /\ Len(cluster_labels) = n
                 /\ \A i \in 1..n : cluster_labels[i] \in 1..k

\* five fragments under the default configuration (k = 1 < 2), body text
\* among them, all returned
C11_Witness ==
    /\ pc = "cluster_done"
    /\ ~opts.monitoring
    /\ Len(fragments) = 5
    /\ \E i \in 1..5 : ~fragments[i].bold
    /\ cluster_labels = <<>>
    /\ candidate_scores = <<>> /\ dynamic_threshold = 0
    /\ exception_in = "none"
    /\ NoBatch
    /\ candidates = fragments

\* whether fragment i belongs to a cluster whose composite score is at least 5
InSelectedCluster(i) ==
    LET members == {j \in 1..Len(fragments) : cluster_labels[j] = cluster_labels[i]}
        texts == SelectSeq(fragments, LAMBDA t : \E j \in members : fragments[j] = t)
    IN  _calculate_cluster_score(texts, Config) >= 5

\* C12: when KMeans ran, the candidates are exactly the fragments of the
\* clusters that score 5 or more: every fragment of such a cluster is returned
\* once, no fragment of another cluster is returned, and nothing else is.
C12_WholeClusters ==
    (pc = "cluster_done" /\ cluster_labels # <<>>) =>
        /\ \A i \in 1..Len(fragments) :
              Occurrences(candidates, fragments[i]) = IF InSelectedCluster(i) THEN 1 ELSE 0
        /\ \A k \in 1..Len(candidates) : \E i \in 1..Len(fragments) : candidates[k] = fragments[i]

\* two clusters, one of body text only (dropped whole) and one with a heading
\* and body text (kept whole)
C12_Witness ==
    /\ pc = "cluster_done"
    /\ cluster_labels = <<1, 1, 2, 2, 2, 2>>
    /\ fragments[1].bold /\ ~fragments[2].bold
    /\ \A i \in 3..6 : ~fragments[i].bold
    /\ candidates = <<fragments[1], fragments[2]>>

-----------------------------------------------------------------------------
(* The scoring pass on its own: AccuracyEnhancer._apply_quality_scoring    *)
(* over candidate lists drawn from bounded sets                            *)

MaxScored == 2

\* a heading as the scoring pass receives it
ScoredHeading(text, page) == [level |-> "H1", text |-> text, page |-> page]

\* texts without a structural pattern (semantic scores 0.8 and 1.0), with a
\* section word, and with a number and a section word
ScoredTexts ==
    {Chars("abc"), Chars("abcdefgh"), Chars("Overview Notes"), Chars("1. Introduction")}

\* headings of early and late pages, with and without the largest boost of
\* the multilingual pass, and two headings that carry a font size
ScoredPool ==
    {ScoredHeading(t, p) : t \in ScoredTexts, p \in {1, 12}}
    \cup {[language |-> "japanese", quality_boost |-> 5] @@ ScoredHeading(t, 1) :
            t \in ScoredTexts}
    \cup {[size |-> RatOfInt(s)] @@ ScoredHeading(Chars("abcdefgh"), 1) : s \in {8, 16}}

InitScore ==
    /\ pc = "calculate_quality_scores"
    /\ candidates \in SeqsUpTo(ScoredPool, MaxScored)
    /\ NoRun
    /\ profile = NoProfile
    /\ lines_info = <<>> /\ page_num = 0 /\ groups = <<>> /\ fragments = <<>>
    /\ filtered = <<>> /\ headings = <<>>

\* the first loop of _apply_quality_scoring
CalculateQualityScores ==
    /\ pc = "calculate_quality_scores"
    /\ candidate_scores' = QualityScores(candidates)
    /\ pc' = "select_final_candidates"
    /\ UNCHANGED <<doc, opts, predictions, profile, title, lines_info, page_num, groups,
                   fragments, candidates, filtered, headings, outline, accuracy_metrics,
                   result, cluster_labels, dynamic_threshold, exception_in, batch_vars>>

\* the rest of _apply_quality_scoring: the sort, the threshold, the selection
\* and the metrics
SelectFinalCandidates ==
    /\ pc = "select_final_candidates"
    /\ dynamic_threshold' = _calculate_dynamic_threshold_from_scores(candidate_scores)
    /\ \E final_candidates \in {SelectByScore(candidates, candidate_scores)} :
          /\ headings' = final_candidates
          /\ accuracy_metrics' = _calculate_accuracy_metrics(final_candidates, candidates)
    /\ pc' = "scoring_done"
    /\ UNCHANGED <<doc, opts, predictions, profile, title, lines_info, page_num, groups,
                   fragments, candidates, filtered, outline, result, cluster_labels,
                   candidate_scores, exception_in, batch_vars>>

NextScore == CalculateQualityScores \/ SelectFinalCandidates

SpecScore == InitScore /\ [][NextScore]_vars

\* C13: every quality score lies between 0 and 1 (0 and 1000 thousandths),
\* whatever the candidate and the candidates around it.
C13_ScoreInUnitInterval ==
    pc # "calculate_quality_scores" =>
        /\ Len(candidate_scores) = Len(candidates)
        /\ \A i \in 1..Len(candidate_scores) :
              candidate_scores[i] >= 0 /\ candidate_scores[i] <= 1000

\* a numbered section heading of the first page with the largest boost: every
\* component at its largest
C13_Witness ==
    /\ pc = "scoring_done"
    /\ \E i \in 1..Len(candidates) :
          /\ GetQualityBoost(candidates[i]) = 5
          /\ _score_structural_patterns(candidates[i]) = 10
          /\ _score_position(candidates[i]) = 9
          /\ candidate_scores[i] > 500

\* the weighted sum of the five component scores, capped at 1.0
WeightedSumOfFive(candidate, all_candidates) ==
    LET total == 35 * _score_structural_patterns(candidate)
                 + 25 * _score_semantic_content(candidate)
                 + 20 * _score_typography(candidate, all_candidates)
                 + 15 * _score_position(candidate)
                 + 5 * GetQualityBoost(candidate)
    IN  IF total > 1000 THEN 1000 ELSE total

\* C14: the quality score of a candidate is 0.35 structural + 0.25 semantic +
\* 0.20 typography + 0.15 position + 0.05 multilingual, capped at 1.0, so two
\* candidates with the same other four component scores and different
\* semantic scores have different quality scores.
C14_FiveWeightedComponents ==
    pc # "calculate_quality_scores" =>
        /\ \A i \in 1..Len(candidates) :
              candidate_scores[i] = WeightedSumOfFive(candidates[i], candidates)
        /\ \A i, j \in 1..Len(candidates) :
              (/\ _score_semantic_content(candidates[i]) # _score_semantic_content(candidates[j])
               /\ _score_structural_patterns(candidates[i]) = _score_structural_patterns(candidates[j])
               /\ _score_typography(candidates[i], candidates) = _score_typography(candidates[j], candidates)
               /\ _score_position(candidates[i]) = _score_position(candidates[j])
               /\ GetQualityBoost(candidates[i]) = GetQualityBoost(candidates[j]))
              => candidate_scores[i] # candidate_scores[j]

-----------------------------------------------------------------------------
(* The threshold and the selection of _apply_quality_scoring over score    *)
(* lists drawn from a bounded set: the part of the pass from the zip of    *)
(* candidates and scores on                                                *)

MaxScores == 3

\* scores in thousandths: 0.2, 0.4, 0.5, 0.6, 0.9
ScoreValues == {200, 300, 400, 500, 600, 900}

\* the i-th scored candidate
NthHeading(i) == ScoredHeading(Chars("Heading"), i)

InitThreshold ==
    /\ pc = "select_final_candidates"
    /\ candidate_scores \in SeqsUpTo(ScoreValues, MaxScores)
    /\ candidates = [i \in 1..Len(candidate_scores) |-> NthHeading(i)]
    /\ doc = <<>>
    /\ opts = [accuracy |-> TRUE, monitoring |-> FALSE, multimodal |-> "absent"]
    /\ predictions = NoPredictions
    /\ profile = NoProfile
    /\ title = <<>> /\ outline = <<>> /\ accuracy_metrics = <<>> /\ result = "none"
    /\ lines_info = <<>> /\ page_num = 0 /\ groups = <<>> /\ fragments = <<>>
    /\ filtered = <<>> /\ headings = <<>>
    /\ cluster_labels = <<>> /\ dynamic_threshold = 0
    /\ exception_in = "none"
    /\ NoBatch

NextThreshold == SelectFinalCandidates

SpecThreshold == InitThreshold /\ [][NextThreshold]_vars

\* twice the median of a non-empty list: the middle score of a list of odd
\* length, the mean of the two middle scores of a list of even length
TwiceMedian(s) ==
    LET n == Len(s)
        rank(i) == 1 + Cardinality({j \in 1..n : s[j] < s[i] \/ (s[j] = s[i] /\ j < i)})
        at(k) == s[CHOOSE i \in 1..n : rank(i) = k]
    IN  IF n % 2 = 1 THEN 2 * at((n + 1) \div 2) ELSE at(n \div 2) + at(n \div 2 + 1)

\* the score of a selected heading
ScoreOf(h) == candidate_scores[CHOOSE i \in 1..Len(candidates) : candidates[i] = h]

\* C15: for a non-empty score list the threshold is
\* max(0.3, min(0.8, 0.8 * median)), between 0.3 and 0.8; the headings kept
\* are exactly the candidates whose score reaches it, in descending score
\* order; for the scores 0.2, 0.5, 0.9 the threshold is 0.4 and the
\* candidates scoring 0.9 and 0.5 are kept.
C15_ThresholdFromMedian ==
    (pc = "scoring_done" /\ candidate_scores # <<>>) =>
        LET clamped == LET t == 4 * TwiceMedian(candidate_scores)
                       IN  IF t < 3000 THEN 3000 ELSE IF t > 8000 THEN 8000 ELSE t
        IN  /\ dynamic_threshold = clamped
            /\ dynamic_threshold >= 3000 /\ dynamic_threshold <= 8000
            /\ \A i \in 1..Len(candidates) :
                  Occurrences(headings, candidates[i])
                     = IF 10 * candidate_scores[i] >= dynamic_threshold THEN 1 ELSE 0
            /\ \A k \in 1..Len(headings) : \E i \in 1..Len(candidates) : headings[k] = candidates[i]
            /\ \A k \in 1..(Len(headings) - 1) : ScoreOf(headings[k]) >= ScoreOf(headings[k + 1])
            /\ candidate_scores = <<200, 500, 900>> =>
                  dynamic_threshold = 4000 /\ headings = <<candidates[3], candidates[2]>>

-----------------------------------------------------------------------------
(* Title extraction on its own: the profile and the title of one-page      *)
(* documents drawn from a bounded set of first pages                       *)

MaxTitleLines == 2

\* lines that reach the form strategy, the font strategy, the generic
\* reconstruction only, the fallback only, an event indicator, and no
\* strategy at all; each with its font size
TitleLines ==
    {<<Chars("Application Form for Research Grants"), 12>>,
     <<Chars("Annual Report of the Regional Development Office"), 16>>,
     <<Chars("Report on FOO_BAR Systems and Methods"), 14>>,
     <<Chars("Short Title"), 12>>,
     <<Chars("Birthday Party Invitation Card"), 12>>,
     <<Chars("Tiny"), 10>>}

\* a page with the given lines, 40 points apart
TitlePage(lines) ==
    [i \in 1..Len(lines) |-> Span(lines[i][1], lines[i][2], FALSE, 60 + 40 * i)]

TitleDocuments ==
    {<<TitlePage(lines)>> : lines \in SeqsUpTo(TitleLines, MaxTitleLines)}

InitTitle ==
    /\ pc = "analyze_document"
    /\ doc \in TitleDocuments
    /\ opts \in {[accuracy |-> FALSE, monitoring |-> m, multimodal |-> "absent"] :
                    m \in BOOLEAN}
    /\ predictions = NoPredictions
    /\ profile = NoProfile
    /\ title = <<>>
    /\ lines_info = <<>> /\ page_num = 0 /\ groups = <<>> /\ fragments = <<>>
    /\ candidates = <<>> /\ filtered = <<>> /\ headings = <<>>
    /\ outline = <<>>
    /\ accuracy_metrics = <<>>
    /\ result = "none"
    /\ cluster_labels = <<>>
    /\ candidate_scores = <<>> /\ dynamic_threshold = 0
    /\ exception_in = "none"
    /\ NoBatch

NextTitle == AnalyzeDocument \/ ExtractTitle

SpecTitle == InitTitle /\ [][NextTitle]_vars

\* what the four strategies produce for the first page, in their order; the
\* form heuristic counts only for a form profile
StrategyResults ==
    LET lines == PlainLines(doc[1])
    IN  <<IF profile.structure.is_form THEN _extract_form_title(lines, Config) ELSE <<>>,
          _extract_font_based_title(doc[1], Config),
          _extract_generic_title(lines),
          _extract_fallback_title(lines, Config)>>

HasEventIndicator ==
    \E indicator \in {Chars("party"), Chars("jump"), Chars("event")} :
        Contains(Lower(profile.text_sample), indicator)

\* C16: the title is the result of the first of the four strategies that
\* produces a non-empty string, and the empty string when none does or when
\* the text sample holds an event indicator.
C16_FirstStrategyWins ==
    pc = "get_heading_candidates" =>
        LET produced == {k \in 1..4 : StrategyResults[k] # <<>>}
        IN  title = IF produced = {} \/ HasEventIndicator THEN <<>>
                    ELSE StrategyResults[CHOOSE k \in produced : \A m \in produced : k <= m]

\* a form whose form title differs from what the font strategy would return
C16_Witness ==
    /\ pc = "get_heading_candidates"
    /\ profile.structure.is_form
    /\ title # <<>>
    /\ title = StrategyResults[1]
    /\ StrategyResults[2] # <<>>
    /\ StrategyResults[2] # title


-----------------------------------------------------------------------------
(* Failure handling of extract_structure                                   *)

\* the result of the except clause of extract_structure
EmptyResult == [title |-> <<>>, outline |-> <<>>]

\* the stages whose exceptions reach the except clause of extract_structure
StagesCaughtAtTop == {"open_document", "extract_title", "extract_headings"}

\* no heading of the sequence carries a field the multimodal enhancer adds
Unenhanced(hs) ==
    \A i \in 1..Len(hs) :
        DOMAIN hs[i] \cap {"level_source", "layoutlm_label", "layoutlm_confidence"} = {}

\* C17 as stated: whichever stage fails, the multimodal enhancement
\* included, extract_structure returns exactly {title: "", outline: []}.
C17_EmptyResultOnAnyFailure ==
    (pc = "done" /\ exception_in # "none") => result = EmptyResult

\* C17: extract_structure always returns a result; an exception raised by
\* opening the document, by title extraction or by heading extraction gives
\* exactly {title: "", outline: []}, while an exception within the multimodal
\* heading enhancement is absorbed by the enhancer: the run goes on with the
\* headings as they were and returns the extracted title with the outline
\* built from them.
C17_EmptyResultWhenCaughtAtTop ==
    pc = "done" =>
        /\ {"title", "outline"} \subseteq DOMAIN result
        /\ exception_in \in StagesCaughtAtTop => result = EmptyResult
        /\ exception_in = "enhance_heading_detection" =>
              /\ result.title = title
              /\ result.outline = headings
              /\ Unenhanced(result.outline)

C17_Witness ==
    /\ pc = "done"
    /\ exception_in = "enhance_heading_detection"
    /\ result.title # <<>>
    /\ result.outline # <<>>

C17_WitnessCaught ==
    /\ pc = "done"
    /\ exception_in = "extract_headings"
    /\ title # <<>>
    /\ result = EmptyResult


-----------------------------------------------------------------------------
(* process_files: a batch of documents on the worker pool                  *)
(* (pdf_extractor_modular.py). pc is the position of the calling thread,   *)
(* result the list of results it has collected and then what it returns.   *)

MaxPaths == 2

\* the threads of ThreadPoolExecutor(max_workers), for a smaller max_workers
MaxWorkers == 2

Workers == 1..MaxWorkers

\* what glob.glob("input/*.pdf") may return: paths with different base names
PathPool ==
    <<Chars("input/a.pdf"), Chars("input/b.v2.pdf"), Chars("input/c.pdf"),
      Chars("input/.d.pdf"), Chars("input/e.pdf"), Chars("input/f.pdf")>>

\* the index of the last occurrence of c in t, 0 when there is none
LastIndexOf(t, c) ==
    LET found == {i \in 1..Len(t) : t[i] = c}
    IN  IF found = {} THEN 0 ELSE CHOOSE i \in found : \A j \in found : j <= i

\* os.path.basename(pdf_path)
basename(pdf_path) == SubSeq(pdf_path, LastIndexOf(pdf_path, "/") + 1, Len(pdf_path))

\* os.path.splitext(name)[0]: the name up to its last dot, leading dots apart
splitext_root(name) ==
    LET dot == LastIndexOf(name, ".")
    IN  IF dot = 0 \/ \A j \in 1..dot : name[j] = "." THEN name
        ELSE SubSeq(name, 1, dot - 1)

\* one output file for every path
SharedOutputPath(pdf_path) == Chars("output.json")

\* output_path of process_single_file, within output_dir
OutputPath(pdf_path) == splitext_root(basename(pdf_path)) \o Chars(".json")

\* what extract_structure may return for the document at a path: the empty
\* result of its except clause, or the structure of that document
ExtractionResults(pdf_path) ==
    {EmptyResult,
     [title |-> basename(pdf_path), outline |-> <<>>,
      _accuracy_metrics |-> [total_headings |-> 0]]}

\* save_result: the result without the keys that start with an underscore
SaveResult(r) ==
    [k \in {x \in DOMAIN r : ~StartsWith(Chars(x), Chars("_"))} |-> r[k]]

\* a worker thread that holds no work item
IdleWorker == [at |-> "idle", item |-> 0, result |-> <<>>, used |-> <<0, 0>>]

InitBatch ==
    /\ pc = "submit"
    /\ \E n \in 0..MaxPaths : input_paths = SubSeq(PathPool, 1, n)
    /\ opts \in {o \in Options : o.accuracy /\ ~o.monitoring}
    /\ work_queue = <<>>
    /\ futures = <<>>
    /\ workers = [w \in Workers |-> IdleWorker]
    /\ output_dir = <<>>
    /\ enhancer = NewEnhancer
    /\ calls = [i \in 1..Len(input_paths) |-> 0]
    /\ result = <<>>
    /\ doc = <<>> /\ predictions = NoPredictions /\ profile = NoProfile
    /\ title = <<>> /\ lines_info = <<>> /\ page_num = 0 /\ groups = <<>>
    /\ fragments = <<>> /\ candidates = <<>> /\ filtered = <<>> /\ headings = <<>>
    /\ outline = <<>> /\ accuracy_metrics = <<>> /\ cluster_labels = <<>>
    /\ candidate_scores = <<>> /\ dynamic_threshold = 0 /\ exception_in = "none"

\* the variables of a single extraction, which the batch leaves at rest
extraction_vars ==
    <<doc, opts, predictions, profile, title, lines_info, page_num, groups, fragments,
      candidates, filtered, headings, outline, accuracy_metrics, cluster_labels,
      candidate_scores, dynamic_threshold, exception_in, input_paths>>

\* executor.map submits one work item per path, in order
Submit ==
    /\ pc = "submit"
    /\ Len(futures) < Len(input_paths)
    /\ futures' = Append(futures, "pending")
    /\ work_queue' = Append(work_queue, Len(futures) + 1)
    /\ UNCHANGED <<pc, result, workers, output_dir, enhancer, calls, extraction_vars>>

\* executor.map returns the iterator of the results
MapReturns ==
    /\ pc = "submit"
    /\ Len(futures) = Len(input_paths)
    /\ pc' = "collect"
    /\ UNCHANGED <<result, work_queue, futures, workers, output_dir, enhancer, calls,
                   extraction_vars>>

\* a worker thread takes the next work item and calls process_single_file,
\* which calls extract_structure
TakeWork(w) ==
    /\ workers[w].at = "idle"
    /\ work_queue # <<>>
    /\ work_queue' = Tail(work_queue)
    /\ futures' = [futures EXCEPT ![Head(work_queue)] = "running"]
    /\ calls' = [calls EXCEPT ![Head(work_queue)] = @ + 1]
    /\ workers' = [workers EXCEPT ![w] =
                      [@ EXCEPT !.item = Head(work_queue),
                                !.at = IF HasLayoutLM THEN "initialize_model"
                                       ELSE "extract_structure"]]
    /\ UNCHANGED <<pc, result, output_dir, enhancer, extraction_vars>>

\* initialize_model: the test of self.initialized, and the import and the
\* lookup of the local model, which fail without writing anything
CheckInitialized(w) ==
    /\ workers[w].at = "initialize_model"
    /\ workers' = [workers EXCEPT ![w].at =
                      IF enhancer.initialized \/ opts.multimodal # "ready"
                      THEN "extract_structure" ELSE "load_processor"]
    /\ UNCHANGED <<pc, result, work_queue, futures, output_dir, enhancer, calls,
                   extraction_vars>>

\* self.processor = LayoutLMv3Processor.from_pretrained(...)
LoadProcessor(w) ==
    /\ workers[w].at = "load_processor"
    /\ enhancer' = [enhancer EXCEPT !.processor = w]
    /\ workers' = [workers EXCEPT ![w].at = "load_model"]
    /\ UNCHANGED <<pc, result, work_queue, futures, output_dir, calls, extraction_vars>>

\* self.model = LayoutLMv3ForTokenClassification.from_pretrained(...)
LoadModel(w) ==
    /\ workers[w].at = "load_model"
    /\ enhancer' = [enhancer EXCEPT !.model = w]
    /\ workers' = [workers EXCEPT ![w].at = "set_initialized"]
    /\ UNCHANGED <<pc, result, work_queue, futures, output_dir, calls, extraction_vars>>

\* self.initialized = True
SetInitialized(w) ==
    /\ workers[w].at = "set_initialized"
    /\ enhancer' = [enhancer EXCEPT !.initialized = TRUE]
    /\ workers' = [workers EXCEPT ![w].at = "extract_structure"]
    /\ UNCHANGED <<pc, result, work_queue, futures, output_dir, calls, extraction_vars>>

\* the rest of extract_structure; with the model ready, the inference reads
\* self.processor and self.model
ExtractStructure(w) ==
    /\ workers[w].at = "extract_structure"
    /\ \E r \in ExtractionResults(input_paths[workers[w].item]) :
          workers' = [workers EXCEPT ![w] =
                         [@ EXCEPT !.at = "save",
                                   !.result = r,
                                   !.used = IF opts.multimodal = "ready"
                                            THEN <<enhancer.processor, enhancer.model>>
                                            ELSE <<0, 0>>]]
    /\ UNCHANGED <<pc, result, work_queue, futures, output_dir, enhancer, calls,
                   extraction_vars>>

\* process_single_file writes the output file and returns True, or returns
\* False from its except clause when the file cannot be written
Save(w) ==
    /\ workers[w].at = "save"
    /\ \E writable \in BOOLEAN :
          IF writable
          THEN /\ output_dir' =
                    (OutputPath(input_paths[workers[w].item]) :>
                         SaveResult(workers[w].result)) @@ output_dir
               /\ futures' = [futures EXCEPT ![workers[w].item] = "True"]
          ELSE /\ futures' = [futures EXCEPT ![workers[w].item] = "False"]
               /\ UNCHANGED output_dir
    /\ workers' = [workers EXCEPT ![w] = IdleWorker]
    /\ UNCHANGED <<pc, result, work_queue, enhancer, calls, extraction_vars>>

\* list(...) takes the next result of the iterator, which waits for its future
CollectResult ==
    /\ pc = "collect"
    /\ Len(result) < Len(input_paths)
    /\ futures[Len(result) + 1] \in {"True", "False"}
    /\ result' = Append(result, futures[Len(result) + 1])
    /\ UNCHANGED <<pc, work_queue, futures, workers, output_dir, enhancer, calls,
                   extraction_vars>>

\* the with block ends (shutdown waits for the worker threads) and
\* process_files returns successful_files = sum(results)
ProcessFilesReturns ==
    /\ pc = "collect"
    /\ Len(result) = Len(input_paths)
    /\ \A w \in Workers : workers[w].at = "idle"
    /\ result' = Cardinality({i \in 1..Len(result) : result[i] = "True"})
    /\ pc' = "returned"
    /\ UNCHANGED <<work_queue, futures, workers, output_dir, enhancer, calls,
                   extraction_vars>>

NextBatch ==
    \/ Submit
    \/ MapReturns
    \/ \E w \in Workers :
          \/ TakeWork(w)
          \/ CheckInitialized(w)
          \/ LoadProcessor(w)
          \/ LoadModel(w)
          \/ SetInitialized(w)
          \/ ExtractStructure(w)
          \/ Save(w)
    \/ CollectResult
    \/ ProcessFilesReturns

SpecBatch == InitBatch /\ [][NextBatch]_vars


\* process_single_file has returned for the i-th input path
Processed(i) == i <= Len(futures) /\ futures[i] \in {"True", "False"}

\* the output file of the i-th path holds a result of that path's document
HoldsOwnResult(i) ==
    /\ OutputPath(input_paths[i]) \in DOMAIN output_dir
    /\ output_dir[OutputPath(input_paths[i])] \in
           {SaveResult(r) : r \in ExtractionResults(input_paths[i])}

\* C18: under every interleaving of the worker pool, process_single_file is
\* called at most once for each input path and exactly once by the time
\* process_files returns; a path whose processing succeeded has its own
\* result in its output file and a path whose processing failed has no output
\* file, whatever happened to the other paths; process_files returns only
\* when every path is processed and every worker is idle, with the number of
\* successes; and no step changes an output file that is already written.
C18_BatchIsolation ==
    /\ [](/\ \A i \in 1..Len(input_paths) : calls[i] <= 1
          /\ \A i \in 1..Len(futures) :
                /\ futures[i] = "True" => HoldsOwnResult(i)
                /\ futures[i] = "False" =>
                      OutputPath(input_paths[i]) \notin DOMAIN output_dir
          /\ pc = "returned" =>
                /\ \A i \in 1..Len(input_paths) : Processed(i) /\ calls[i] = 1
                /\ \A w \in Workers : workers[w].at = "idle"
                /\ work_queue = <<>>
                /\ result = Cardinality({i \in 1..Len(futures) : futures[i] = "True"}))
    /\ [][\A name \in DOMAIN output_dir :
             name \in DOMAIN output_dir' /\ output_dir'[name] = output_dir[name]]_vars

\* a batch of two paths has returned: the first path failed, the second was
\* processed all the same and has its structure in its output file
C18_Witness ==
    /\ pc = "returned"
    /\ futures = <<"False", "True">>
    /\ DOMAIN output_dir = {Chars("b.v2.json")}
    /\ output_dir[Chars("b.v2.json")] =
           [title |-> Chars("b.v2.pdf"), outline |-> <<>>]
    /\ result = 1


\* C19: no worker thread writes a field of an object another worker can
\* reach, the multimodal enhancer with its lazily initialised model included,
\* and so no worker reads a processor or a model that another worker wrote.
C19_NoSharedWrites ==
    /\ [][enhancer' = enhancer]_vars
    /\ [](\A w \in Workers :
             workers[w].at = "save" =>
                 \A k \in 1..2 : workers[w].used[k] \in {0, w})


-----------------------------------------------------------------------------
(* The multimodal heading enhancement on its own                           *)

MaxEnhanced == 2

\* headings as build_hierarchy leaves them, on the pages of the document
EnhancedPool ==
    {[level |-> l, text |-> t, page |-> p] :
        l \in {"H1", "H2", "H3"},
        t \in {Chars("Project Overview"), Chars("1. Introduction")},
        p \in {0, 1}}

\* what the loaded model may predict for the words of a page: the first label
\* of each level, with a confidence around each configured threshold
EnhancePredictions ==
    {[aligned |-> TRUE, prediction_id |-> i, confidence |-> c] :
        i \in {1, 3, 5, 7}, c \in {45, 50, 55, 65, 75, 85}}

InitEnhance ==
    /\ pc = "enhance_heading_detection"
    /\ doc \in {<<ReportPage>>, <<ReportPage, ReportPage>>}
    /\ opts = [accuracy |-> TRUE, monitoring |-> FALSE, multimodal |-> "ready"]
    /\ predictions \in EnhancePredictions
    /\ headings \in {hs \in SeqsUpTo(EnhancedPool, MaxEnhanced) :
                        /\ hs # <<>>
                        /\ \A i \in 1..Len(hs) : hs[i].page < Len(doc)
                        /\ \A i \in 1..(Len(hs) - 1) : hs[i].page <= hs[i + 1].page}
    /\ profile = NoProfile
    /\ title = <<>> /\ lines_info = <<>> /\ page_num = 0 /\ groups = <<>>
    /\ fragments = <<>> /\ candidates = <<>> /\ filtered = <<>>
    /\ outline = <<>> /\ accuracy_metrics = <<>> /\ result = "none"
    /\ cluster_labels = <<>> /\ candidate_scores = <<>> /\ dynamic_threshold = 0
    /\ exception_in = "none"
    /\ NoBatch

NextEnhance == EnhanceHeadingDetection

SpecEnhance == InitEnhance /\ [][NextEnhance]_vars

\* the threshold configured for a level in confidence_thresholds
ConfiguredThreshold(level) ==
    CASE level = "TITLE" -> confidence_thresholds.title
      [] level = "H1" -> confidence_thresholds.h1
      [] level = "H2" -> confidence_thresholds.h2
      [] level = "H3" -> confidence_thresholds.h3

\* C20: the multimodal enhancer changes the level of a candidate to a
\* predicted level L only when the confidence of the prediction exceeds the
\* threshold configured for L (title 0.8, H1 0.7, H2 0.6, H3 0.5); a
\* prediction of H1 with a confidence at or below the H1 threshold leaves the
\* level of the candidate as it was.
C20_OverrideAboveLevelThreshold ==
    [][(pc = "enhance_heading_detection" /\ pc' # pc) =>
          /\ Len(headings') = Len(headings)
          /\ \A i \in 1..Len(headings) :
                headings'[i].level # headings[i].level =>
                    /\ "layoutlm_confidence" \in DOMAIN headings'[i]
                    /\ headings'[i].layoutlm_confidence >
                           ConfiguredThreshold(headings'[i].level)]_vars


-----------------------------------------------------------------------------
(* extract_structure of an extractor without multimodal enhancer           *)

\* the title and outline extract_structure returns for a headings list when
\* self.layoutlmv3_enhancer is None
FinishWithoutEnhancer(t, raw_headings, accuracy) ==
    IF accuracy
    THEN LET multilingual_enhanced ==
                 _apply_multilingual_enhancement(
                     _apply_recall_enhancement(_apply_precision_filters(raw_headings)))
         IN  [title |-> t,
              outline |-> SelectByScore(multilingual_enhanced,
                                        QualityScores(multilingual_enhanced))]
    ELSE [title |-> t, outline |-> raw_headings]

\* the titles and outlines extract_structure may return for an opened
\* document when self.layoutlmv3_enhancer is None, one for every labelling
\* KMeans may return
ResultsWithoutEnhancer(d, accuracy, config) ==
    IF Len(d) = 0 THEN {EmptyResult}
    ELSE LET doc_profile == analyze_document(d, config)
             t == extract_title(d, doc_profile, config)
             after(cands) ==
                 LET r == filter_candidates(cands, doc_profile, config)
                 IN  IF r.raised THEN EmptyResult
                     ELSE FinishWithoutEnhancer(t, build_hierarchy(r.kept), accuracy)
         IN  {after(outcome.candidates) :
                 outcome \in ClusterOutcomes(AllTexts(d, config), config)}

\* the multimodal enhancer was there and did not enhance the headings: its
\* model could not be initialised, or the heading enhancement raised
EnhancerFellBack ==
    \/ opts.multimodal = "no_model"
    \/ exception_in = "enhance_heading_detection"

\* C21: when the model of the multimodal enhancer cannot be initialised, or
\* an exception occurs during the heading enhancement, extract_structure
\* returns a title and an outline that an extractor built without enhancer
\* returns for the same document and the same other options.
C21_SameAsWithoutEnhancer ==
    (pc = "done" /\ EnhancerFellBack /\ exception_in # "open_document") =>
        [title |-> result.title, outline |-> result.outline]
            \in ResultsWithoutEnhancer(doc, opts.accuracy, Config)

\* a run whose enhancer has no model returned a title and two headings
C21_Witness ==
    /\ pc = "done"
    /\ opts.multimodal = "no_model"
    /\ result.title # <<>>
    /\ Len(result.outline) >= 2

\* a run whose heading enhancement raised, after the document analysis had
\* been enhanced, returned a heading
C21_WitnessRaised ==
    /\ pc = "done"
    /\ exception_in = "enhance_heading_detection"
    /\ "layoutlm_features" \in DOMAIN profile
    /\ Len(result.outline) >= 1


-----------------------------------------------------------------------------
(* The callers that write the result of extract_structure to disk          *)

\* the path of the document of the run
pdf_file == PathPool[1]

\* Path(pdf_file).stem of the command-line loop, with ".json"
CliOutputFile(path) == splitext_root(basename(path)) \o Chars(".json")

\* process_single_file of process_files writes save_result
SaveInProcessFiles ==
    /\ pc = "done"
    /\ \E writable \in BOOLEAN :
          output_dir' = IF writable
                        THEN (OutputPath(pdf_file) :> SaveResult(result)) @@ output_dir
                        ELSE output_dir
    /\ pc' = "saved_by_process_files"
    /\ UNCHANGED <<doc, opts, predictions, profile, title, lines_info, page_num, groups,
                   fragments, candidates, filtered, headings, outline, accuracy_metrics,
                   result, cluster_labels, candidate_scores, dynamic_threshold,
                   exception_in, input_paths, work_queue, futures, workers, enhancer,
                   calls>>

\* the loop of cli.main writes the result as extract_structure returned it
SaveInCli ==
    /\ pc = "done"
    /\ \E writable \in BOOLEAN :
          output_dir' = IF writable
                        THEN (CliOutputFile(pdf_file) :> result) @@ output_dir
                        ELSE output_dir
    /\ pc' = "saved_by_cli"
    /\ UNCHANGED <<doc, opts, predictions, profile, title, lines_info, page_num, groups,
                   fragments, candidates, filtered, headings, outline, accuracy_metrics,
                   result, cluster_labels, candidate_scores, dynamic_threshold,
                   exception_in, input_paths, work_queue, futures, workers, enhancer,
                   calls>>

NextPersist ==
    \/ Next
    \/ SaveInProcessFiles
    \/ SaveInCli

SpecPersist == Init /\ [][NextPersist]_vars

\* the keys of a written result that start with an underscore
UnderscoreKeys(written) == {k \in DOMAIN written : Chars(k)[1] = "_"}

\* C22: no file written to the output directory, by process_files or by the
\* command-line loop, holds a key that starts with an underscore.
C22_NoUnderscoreKeyPersisted ==
    \A name \in DOMAIN output_dir : UnderscoreKeys(output_dir[name]) = {}

\* the part of C22 that holds: what process_files writes has no such key
C22_ProcessFilesStrips ==
    pc = "saved_by_process_files" =>
        \A name \in DOMAIN output_dir : UnderscoreKeys(output_dir[name]) = {}


-----------------------------------------------------------------------------
(* extract_structure with and without performance monitoring               *)

\* a form page with a second line of 52 characters
LongFormPage ==
    <<Span(Chars("Application Form for Research Grants"), 12, FALSE, 100),
      Span(Chars("Regional Development Office Annual Funding Programme"), 14, TRUE, 200)>>

\* a report page with a second line of 87 characters
LongReportPage ==
    <<Span(Chars("Project Overview"), 16, TRUE, 100),
      Span(Chars("Overview of the Regional Development Programme and Its Funding ")
               \o Chars("Priorities for Next Year"), 14, TRUE, 200)>>

MonitoredDocuments ==
    SeqsUpTo({ReportPage, LongFormPage, LongReportPage}, MaxPages) \ {<<>>}

\* the config arguments a user may give: none, the one of main_modular, and
\* one that sets a text limit
CustomConfigs ==
    {<<>>,
     [extraction |-> [max_workers |-> 3,
                      font_thresholds |-> [min_heading_size |-> 10,
                                           large_font_threshold |-> 14]]],
     [extraction |-> [text_limits |-> [max_academic_heading |-> 140]]]}

InitMonitoring ==
    /\ pc = "open_document"
    /\ doc \in MonitoredDocuments
    /\ opts \in {o \in [accuracy : BOOLEAN, monitoring : BOOLEAN,
                          multimodal : {"absent", "no_model"},
                          custom_config : CustomConfigs] :
                    o.multimodal # "absent" => o.accuracy}
    /\ predictions = NoPredictions
    /\ profile = NoProfile
    /\ title = <<>>
    /\ lines_info = <<>> /\ page_num = 0 /\ groups = <<>> /\ fragments = <<>>
    /\ candidates = <<>> /\ filtered = <<>> /\ headings = <<>>
    /\ outline = <<>>
    /\ accuracy_metrics = <<>>
    /\ result = "none"
    /\ cluster_labels = <<>>
    /\ candidate_scores = <<>> /\ dynamic_threshold = 0
    /\ exception_in = "none"
    /\ NoBatch

SpecMonitoring == InitMonitoring /\ [][Next]_vars

\* C23: for every document and every user configuration, a run with
\* performance monitoring enabled returns a title and an outline that a run
\* with monitoring disabled returns for the same document, configuration and
\* accuracy option.
C23_MonitoringOnlyObserves ==
    (pc = "done" /\ opts.monitoring /\ exception_in # "open_document") =>
        [title |-> result.title, outline |-> result.outline]
            \in ResultsWithoutEnhancer(doc, opts.accuracy, ConfigFor(CustomConfig, FALSE))


-----------------------------------------------------------------------------
(* The worker pool process_files creates                                   *)

MaxCustomWorkers == 4

\* the config arguments that set at most the worker count
WorkerConfigs ==
    {<<>>} \cup {[extraction |-> [max_workers |-> n]] : n \in 1..MaxCustomWorkers}

InitPool ==
    /\ pc = "create_pool"
    /\ opts \in [accuracy : BOOLEAN, monitoring : BOOLEAN, multimodal : {"absent"},
                 custom_config : WorkerConfigs]
    /\ \E n \in 0..MaxPaths : input_paths = SubSeq(PathPool, 1, n)
    /\ work_queue = <<>>
    /\ futures = <<>>
    /\ workers = <<>>
    /\ output_dir = <<>>
    /\ enhancer = NewEnhancer
    /\ calls = [i \in 1..Len(input_paths) |-> 0]
    /\ result = <<>>
    /\ doc = <<>> /\ predictions = NoPredictions /\ profile = NoProfile
    /\ title = <<>> /\ lines_info = <<>> /\ page_num = 0 /\ groups = <<>>
    /\ fragments = <<>> /\ candidates = <<>> /\ filtered = <<>> /\ headings = <<>>
    /\ outline = <<>> /\ accuracy_metrics = <<>> /\ cluster_labels = <<>>
    /\ candidate_scores = <<>> /\ dynamic_threshold = 0 /\ exception_in = "none"

\* max_workers = self.config['extraction']['max_workers'] and
\* ThreadPoolExecutor(max_workers=max_workers)
CreatePool ==
    /\ pc = "create_pool"
    /\ workers' = [w \in 1..Config.extraction.max_workers |-> IdleWorker]
    /\ pc' = "submit"
    /\ UNCHANGED <<result, work_queue, futures, output_dir, enhancer, calls,
                   extraction_vars>>

NextPool == CreatePool

SpecPool == InitPool /\ [][NextPool]_vars

\* C24: the pool of process_files has as many workers as the max_workers the
\* user supplied in the custom configuration, and the default number only
\* when the user supplied none.
C24_PoolSizeAsConfigured ==
    pc = "submit" =>
        Len(workers) = IF CustomConfig = <<>>
                       THEN get_default_config.extraction.max_workers
                       ELSE CustomConfig.extraction.max_workers


-----------------------------------------------------------------------------
(* Document analysis on its own                                            *)

MaxAnalyzed == 4

AnalyzedDocuments == SeqsUpTo({ReportPage, FormPage, ManualPage}, MaxAnalyzed)

InitAnalyze ==
    /\ pc = "analyze_document"
    /\ doc \in AnalyzedDocuments
    /\ opts \in {o \in Options : o.multimodal = "absent" /\ ~o.accuracy}
    /\ predictions = NoPredictions
    /\ profile = NoProfile
    /\ title = <<>>
    /\ lines_info = <<>> /\ page_num = 0 /\ groups = <<>> /\ fragments = <<>>
    /\ candidates = <<>> /\ filtered = <<>> /\ headings = <<>>
    /\ outline = <<>>
    /\ accuracy_metrics = <<>>
    /\ result = "none"
    /\ cluster_labels = <<>>
    /\ candidate_scores = <<>> /\ dynamic_threshold = 0
    /\ exception_in = "none"
    /\ NoBatch

NextAnalyze == AnalyzeDocument

SpecAnalyze == InitAnalyze /\ [][NextAnalyze]_vars

\* the profile of a document without pages
ZeroPageProfile ==
    [text_sample |-> <<>>,
     font_stats |-> <<>>,
     structure |-> [is_form |-> FALSE, is_academic |-> FALSE, is_technical |-> FALSE,
                    has_toc |-> FALSE, has_numbered_sections |-> FALSE,
                    avg_text_per_page |-> RatOfInt(0), font_variety |-> 0],
     page_count |-> 0]

\* C25: analyze_document returns for a document without pages the profile
\* with all flags false, empty font_stats, font_variety 0, avg_text_per_page
\* 0 and page_count 0; for any document the profile is the one of its first
\* three pages, with the page count of the whole document, so no page with
\* index 3 or higher is read.
C25_AnalyzesFirstThreePages ==
    pc = "extract_title" =>
        /\ Len(doc) = 0 => profile = ZeroPageProfile
        /\ profile = [analyze_document(SubSeq(doc, 1, Min(3, Len(doc))), Config)
                          EXCEPT !.page_count = Len(doc)]

\* the document without pages has been analysed
C25_Witness ==
    /\ pc = "extract_title"
    /\ doc = <<>>
    /\ profile.page_count = 0
    /\ DOMAIN profile.font_stats = {}

\* a document whose fourth page is the only one of a technical manual has
\* been analysed and is not technical
C25_WitnessFourthPage ==
    /\ pc = "extract_title"
    /\ doc = <<ReportPage, ReportPage, ReportPage, ManualPage>>
    /\ ~profile.structure.is_technical


-----------------------------------------------------------------------------
(* The noise test and the language patterns on one text                    *)

MaxParts == 5

LanguageParts ==
    {<<"U+7B2C">>, <<"1">>, <<"U+7AE0">>, <<" ">>, <<"U+6982", "U+8981">>, Chars("ab")}

RECURSIVE ConcatParts(_)
ConcatParts(parts) ==
    IF parts = <<>> THEN <<>> ELSE Head(parts) \o ConcatParts(Tail(parts))

LanguageTexts == {ConcatParts(parts) : parts \in SeqsUpTo(LanguageParts, MaxParts)}

\* U+7B2C 1 U+7AE0, a space, U+6982 U+8981
JapaneseHeading == <<"U+7B2C", "1", "U+7AE0", " ", "U+6982", "U+8981">>

InitLanguage ==
    /\ pc = "noise_check"
    /\ candidates \in {CandsOf(<<text>>) : text \in LanguageTexts}
    /\ profile = NoProfile
    /\ NoRun
    /\ lines_info = <<>> /\ page_num = 0 /\ groups = <<>> /\ fragments = <<>>
    /\ filtered = <<>> /\ headings = <<>>

\* the noise test of filter_candidates on the stripped text of the candidate
IsNoiseText ==
    /\ pc = "noise_check"
    /\ pc' = IF _is_noise_text(Strip(candidates[1].text), ConfigOf(opts.monitoring))
             THEN "discarded_as_noise" ELSE "detect_language"
    /\ UNCHANGED <<doc, opts, predictions, profile, title, lines_info, page_num, groups, fragments,
                   candidates, filtered, headings, outline, accuracy_metrics, result,
                   cluster_labels, candidate_scores, dynamic_threshold, exception_in,
                   batch_vars>>

\* AccuracyEnhancer._apply_multilingual_enhancement on the candidate
ApplyMultilingualEnhancement ==
    /\ pc = "detect_language"
    /\ headings' = _apply_multilingual_enhancement(candidates)
    /\ pc' = "language_enhanced"
    /\ UNCHANGED <<doc, opts, predictions, profile, title, lines_info, page_num, groups, fragments,
                   candidates, filtered, outline, accuracy_metrics, result,
                   cluster_labels, candidate_scores, dynamic_threshold, exception_in,
                   batch_vars>>

NextLanguage == IsNoiseText \/ ApplyMultilingualEnhancement

SpecLanguage == InitLanguage /\ [][NextLanguage]_vars

\* C26: the text U+7B2C 1 U+7AE0 space U+6982 U+8981 is detected as Japanese,
\* gets a quality boost above 0 from the Japanese pattern table, and the
\* noise test of the heading filter does not discard it.
C26_JapaneseHeadingNotNoise ==
    (pc \in {"noise_check", "discarded_as_noise", "detect_language", "language_enhanced"}
     /\ candidates[1].text = JapaneseHeading) =>
        /\ _detect_text_language(candidates[1].text) = "japanese"
        /\ pc # "discarded_as_noise"
        /\ pc = "language_enhanced" =>
              /\ headings[1].language = "japanese"
              /\ headings[1].quality_boost > 0

\* the Japanese heading passed the noise test and got the boost of a section
\* keyword and of a numbering pattern
C26_Witness ==
    /\ pc = "language_enhanced"
    /\ candidates[1].text = JapaneseHeading
    /\ headings[1].language = "japanese"
    /\ headings[1].quality_boost = 5


-----------------------------------------------------------------------------
(* The filter under a technical profile                                    *)

TechnicalOnly(doc_profile) ==
    /\ doc_profile.structure.is_technical
    /\ ~doc_profile.structure.is_form
    /\ ~doc_profile.structure.is_academic

\* C27: under the default configuration filter_candidates completes without
\* error for every candidate list of a document profiled as technical only,
\* and the kept candidates are within the technical limits.
C27_TechnicalFilterCompletes ==
    (pc \in {"filtered", "filter_raised"} /\ TechnicalOnly(profile)) =>
        /\ pc = "filtered"
        /\ \A i \in 1..Len(filtered) :
              Count(filtered[i].text, <<"(">>)
                 <= ConfigOf(opts.monitoring).document_types.technical.max_parentheses


-----------------------------------------------------------------------------
(* Failed extractions in the count of process_files                        *)

\* the file of input path i holds the result of the except clause of
\* extract_structure: the extraction of that document failed
WroteErrorResult(i) ==
    /\ OutputPath(input_paths[i]) \in DOMAIN output_dir
    /\ output_dir[OutputPath(input_paths[i])] = EmptyResult

\* C28: a document whose extraction failed is not counted as successful, so
\* the number of files reported as failed, len(pdf_files) - successful_files,
\* is at least the number of documents whose extraction failed.
C28_FailedExtractionNotCounted ==
    pc = "returned" =>
        /\ \A i \in 1..Len(input_paths) : WroteErrorResult(i) => futures[i] = "False"
        /\ Len(input_paths) - result
              >= Cardinality({i \in 1..Len(input_paths) : WroteErrorResult(i)})


-----------------------------------------------------------------------------
(* The page a heading is looked up on                                      *)

MaxEnhancedPages == 2

\* the first line of a page
FirstLine(page) == TextSpans(page)[1].text

\* documents whose pages have different words
PagedDocuments ==
    SeqsUpTo({ReportPage, ManualPage, FormPage}, MaxEnhancedPages) \ {<<>>}

\* headings as build_hierarchy leaves them: the first line of a page of the
\* document, with the 0-based number of that page
HeadingsOn(d) ==
    {[level |-> l, text |-> FirstLine(d[p + 1]), page |-> p] :
        l \in {"H1", "H2"}, p \in 0..(Len(d) - 1)}

InitEnhancePages ==
    /\ pc = "enhance_heading_detection"
    /\ doc \in PagedDocuments
    /\ opts = [accuracy |-> TRUE, monitoring |-> FALSE, multimodal |-> "ready"]
    /\ predictions \in EnhancePredictions
    /\ headings \in {hs \in SeqsUpTo(HeadingsOn(doc), MaxEnhanced) :
                        /\ hs # <<>>
                        /\ \A i \in 1..(Len(hs) - 1) : hs[i].page <= hs[i + 1].page}
    /\ profile = NoProfile
    /\ title = <<>> /\ lines_info = <<>> /\ page_num = 0 /\ groups = <<>>
    /\ fragments = <<>> /\ candidates = <<>> /\ filtered = <<>>
    /\ outline = <<>> /\ accuracy_metrics = <<>> /\ result = "none"
    /\ cluster_labels = <<>> /\ candidate_scores = <<>> /\ dynamic_threshold = 0
    /\ exception_in = "none"
    /\ NoBatch

NextEnhancePages == EnhanceHeadingDetection

SpecEnhancePages == InitEnhancePages /\ [][NextEnhancePages]_vars

\* C29: the multimodal enhancer matches the text of every heading it
\* receives against the words and predictions of the page the heading is
\* on: a heading with outline page p is looked up on the page with index p.
C29_LookedUpOnOwnPage ==
    [][(pc = "enhance_heading_detection" /\ pc' # pc) =>
          headings' = [i \in 1..Len(headings) |->
                          EnhanceCandidate(headings[i],
                                           PageWords(doc[headings[i].page + 1]),
                                           predictions)]]_vars


-----------------------------------------------------------------------------
(* The survivors of the scoring pass                                       *)

\* C30: in the scoring pass over n >= 1 candidates, whenever the score at
\* index n div 2 of the ascending scores is at least 0.3, the threshold does
\* not exceed that score and at least ceil(n / 2) candidates survive; every
\* candidate is dropped only when that score is below 0.3.
C30_HalfSurviveAboveFloor ==
    (pc = "scoring_done" /\ Len(candidate_scores) >= 1) =>
        LET n == Len(candidate_scores)
            median_score == MedianScore(candidate_scores)
        IN  /\ median_score >= 300 =>
                  /\ dynamic_threshold <= 10 * median_score
                  /\ 2 * Len(headings) >= n
            /\ headings = <<>> => median_score < 300

\* three candidates with the scores 0.3, 0.9 and 0.3: the middle score is
\* exactly 0.3, the threshold is 0.3 and all three survive
C30_Witness ==
    /\ pc = "scoring_done"
    /\ candidate_scores = <<300, 900, 300>>
    /\ dynamic_threshold = 3000
    /\ Len(headings) = 3

\* two candidates scoring 0.2 are both dropped
C30_WitnessAllDropped ==
    /\ pc = "scoring_done"
    /\ candidate_scores = <<200, 200>>
    /\ headings = <<>>

=============================================================================
